---- MODULE Spec2Model ----
(***************************************************************************)
(* Model of the health-ai-bot triage core (src/src/health_ai.py).          *)
(*                                                                         *)
(* Text is modelled as TLA+ strings, character by character: TLC's Len,    *)
(* SubSeq and \o act on strings, so Python's `in`, lower(), strip(),       *)
(* split() and re.findall are computed on the characters of the message.   *)
(* A confidence is kept in hundredths (0.6 is 60, 0.95 is 95).  The model's *)
(* strings are ASCII: an emoji of a source literal, with the blank after   *)
(* it, is left out.  An Optional value is a sequence: <<>> is None, <<s>>   *)
(* is the string s.                                                        *)
(*                                                                         *)
(* Around the core: EnhancedAI (src/src/gemini_ai.py), the name lookup of  *)
(* WhatsAppBot._analyze_message (src/src/whatsapp_bot.py) and the users    *)
(* and messages tables of DatabaseManager (src/src/database.py).           *)
(***************************************************************************)
EXTENDS Integers, Sequences, FiniteSets, TLC

VARIABLES
    symptom_keywords,     \* HealthAI.symptom_keywords
    medical_knowledge,    \* HealthAI.medical_knowledge
    emergency_keywords,   \* HealthAI.emergency_keywords
    hashseed,             \* the process's string-hash seed (orders list(set(..)))
    message,              \* argument of the last analyze_message call
    analysis,             \* SymptomAnalysis returned by the last call
    calls,                \* "none" before the first call; then "analyzed", or
                          \* "repeated" after repeat_message
    formatted,            \* analysis argument of the last format_response call
    user_name,            \* user_name argument of the last format_response or
                          \* EnhancedAI.analyze_message call (an Optional)
    response,             \* string that call returned
    raised,               \* TRUE if that call raised instead of returning
    gemini_available,     \* EnhancedAI.gemini_available
    asked,                \* message argument of the last
                          \* EnhancedAI.analyze_message call
    handled,              \* what that call ran, in order: "health",
                          \* "general", "gemini" (generate_content)
    users,                \* users table: phone_number -> its row, if any
    messages,             \* messages table: the rows in insertion order
    analyses,             \* analyses table: the rows in insertion order
    deleted,              \* the phone number whose data the last
                          \* DatabaseManager call deleted, if that call was a
                          \* delete_user_data that returned True
    user_info,            \* what WhatsAppBot._analyze_message read from the
                          \* users table: the row, if any
    bot_reply,            \* what the last call of WhatsAppBot._analyze_message
                          \* or process_incoming_message returned, if any
    bot_message,          \* message argument of that call
    branch,               \* the reply branch _handle_message took in it:
                          \* "welcome", "help", "tips", "emergency" or
                          \* "analysis" ("" if it was not reached)
    failed,               \* the steps that raised inside that call, in order
    max_calls,            \* RateLimiter.max_calls
    time_window,          \* RateLimiter.time_window
    rate_calls,           \* RateLimiter.calls: identifier -> recorded
                          \* timestamps (none recorded and no key are alike)
    clock,                \* datetime.now().timestamp() at the last is_allowed
    granted,              \* identifier -> the times of the is_allowed calls
                          \* that returned True, in order
    last_call,            \* identifier, time and result of the last
                          \* is_allowed call, if any
    chunk_input,          \* arguments of the chunk_message call, if any
    chunks                \* the list chunk_message returned

core_vars == <<symptom_keywords, medical_knowledge, emergency_keywords,
               hashseed, message, analysis, calls>>

reply_vars == <<formatted, user_name, response, raised, gemini_available,
                asked, handled>>

db_vars == <<users, messages, analyses, deleted>>

bot_vars == <<user_info, bot_reply, bot_message, branch, failed>>

util_vars == <<max_calls, time_window, rate_calls, clock, granted, last_call,
               chunk_input, chunks>>

vars == <<symptom_keywords, medical_knowledge, emergency_keywords,
          hashseed, message, analysis, calls, formatted, user_name, response,
          raised, gemini_available, asked, handled, users, messages,
          analyses, deleted,
          user_info, bot_reply, bot_message, branch, failed,
          max_calls, time_window, rate_calls, clock, granted, last_call,
          chunk_input, chunks>>

(***************************************************************************)
(* Bounds of the model.                                                    *)
(***************************************************************************)
\* A message is the concatenation of at most MaxFrags fragments.
MaxFrags == 2

(***************************************************************************)
(* Strings.                                                                *)
(***************************************************************************)
Char(s, i) == SubSeq(s, i, i)

UpperAlpha == "ABCDEFGHIJKLMNOPQRSTUVWXYZ"
LowerAlpha == "abcdefghijklmnopqrstuvwxyz"

\* needle, of length k, occurs in hay, of length n.
OccursIn(needle, hay, k, n) ==
    \E i \in 1..(n - k + 1) : SubSeq(hay, i, i + k - 1) = needle

\* str.__contains__: needle is a substring of hay.
Contains(needle, hay) == OccursIn(needle, hay, Len(needle), Len(hay))

IsSpace(c) == c \in {" ", "\t", "\n", "\r", "\f"}

UpperLetters == {Char(UpperAlpha, i) : i \in 1..26}
LowerLetters == {Char(LowerAlpha, i) : i \in 1..26}

LowerChar(c) ==
    IF c \in UpperLetters
    THEN Char(LowerAlpha, CHOOSE i \in 1..26 : Char(UpperAlpha, i) = c)
    ELSE c

UpperChar(c) ==
    IF c \in LowerLetters
    THEN Char(UpperAlpha, CHOOSE i \in 1..26 : Char(LowerAlpha, i) = c)
    ELSE c

IsAlpha(c) == c \in UpperLetters \/ c \in LowerLetters

RECURSIVE LowerRange(_, _, _)
\* The characters lo..hi of s, lowered (the range is halved to keep the
\* recursion shallow).
LowerRange(s, lo, hi) ==
    IF lo > hi THEN ""
    ELSE IF lo = hi THEN LowerChar(Char(s, lo))
    ELSE LowerRange(s, lo, (lo + hi) \div 2)
             \o LowerRange(s, (lo + hi) \div 2 + 1, hi)

\* str.lower(): a string without upper-case letters is returned as it is.
lower(s) ==
    IF \E i \in 1..Len(s) : Char(s, i) \in UpperLetters
    THEN LowerRange(s, 1, Len(s))
    ELSE s

SetMin(S) == CHOOSE x \in S : \A y \in S : x <= y
SetMax(S) == CHOOSE x \in S : \A y \in S : x >= y

\* The characters of s from its first to its last non-blank one.
StripTo(s, ink) ==
    IF ink = {} THEN "" ELSE SubSeq(s, SetMin(ink), SetMax(ink))

\* str.strip(): leading and trailing whitespace removed.
strip(s) == StripTo(s, {i \in 1..Len(s) : ~IsSpace(Char(s, i))})

\* Fault variant of word_count: len(message.split(' ')), which is 1 for the
\* empty string.
word_count_SplitOnSpace(s) ==
    Cardinality({i \in 1..Len(s) : Char(s, i) = " "}) + 1

\* len(str.split()): the number of maximal runs of non-whitespace characters.
word_count(s) ==
    Cardinality({i \in 1..Len(s) :
                    /\ ~IsSpace(Char(s, i))
                    /\ (i = 1 \/ IsSpace(Char(s, i - 1)))})

TitleChar(s, i) ==
    IF i = 1 \/ ~IsAlpha(Char(s, i - 1))
    THEN UpperChar(Char(s, i))
    ELSE LowerChar(Char(s, i))

RECURSIVE TitleRange(_, _, _)
TitleRange(s, lo, hi) ==
    IF lo > hi THEN ""
    ELSE IF lo = hi THEN TitleChar(s, lo)
    ELSE TitleRange(s, lo, (lo + hi) \div 2)
             \o TitleRange(s, (lo + hi) \div 2 + 1, hi)

\* str.title(): a letter after a non-letter is upper-cased, the others lowered.
title(s) == TitleRange(s, 1, Len(s))

RECURSIVE ReplaceRange(_, _, _, _, _)
ReplaceRange(s, old, new, lo, hi) ==
    IF lo > hi THEN ""
    ELSE IF lo = hi THEN (IF Char(s, lo) = old THEN new ELSE Char(s, lo))
    ELSE ReplaceRange(s, old, new, lo, (lo + hi) \div 2)
             \o ReplaceRange(s, old, new, (lo + hi) \div 2 + 1, hi)

\* str.replace(old, new) for a one-character old.
replace(s, old, new) == ReplaceRange(s, old, new, 1, Len(s))

\* x in list
InSeq(x, seq) == \E i \in 1..Len(seq) : seq[i] = x


RECURSIVE Flatten(_)
\* The concatenation of a sequence of sequences (nested for-loops over lists).
Flatten(seqs) ==
    IF seqs = <<>> THEN <<>> ELSE Head(seqs) \o Flatten(Tail(seqs))

RECURSIVE SumSeq(_)
SumSeq(ns) == IF ns = <<>> THEN 0 ELSE Head(ns) + SumSeq(Tail(ns))

Min(a, b) == IF a <= b THEN a ELSE b

(***************************************************************************)
(* The knowledge base, as the loaders build it.  A dict is the sequence of *)
(* its items in insertion order, which is the order Python iterates it in. *)
(***************************************************************************)
_load_symptom_keywords ==
    << [category |-> "pain",
        keywords |-> <<"pain", "ache", "hurt", "sore", "tender", "throbbing",
                       "stabbing">>,
        severity_indicators |->
            << [level |-> "mild", indicators |-> <<"slight", "minor", "little">>],
               [level |-> "moderate", indicators |-> <<"moderate", "noticeable">>],
               [level |-> "severe",
                indicators |-> <<"severe", "intense", "unbearable",
                                 "excruciating">>] >>],
       [category |-> "fever",
        keywords |-> <<"fever", "temperature", "hot", "chills", "sweating">>,
        severity_indicators |->
            << [level |-> "mild", indicators |-> <<"low grade", "slight fever">>],
               [level |-> "moderate",
                indicators |-> <<"fever", "high temperature">>],
               [level |-> "severe",
                indicators |-> <<"high fever", "burning up">>] >>],
       [category |-> "respiratory",
        keywords |-> <<"cough", "breathing", "shortness of breath", "wheezing",
                       "congestion">>,
        severity_indicators |->
            << [level |-> "mild",
                indicators |-> <<"slight cough", "light congestion">>],
               [level |-> "moderate",
                indicators |-> <<"persistent cough", "difficulty breathing">>],
               [level |-> "severe",
                indicators |-> <<"severe breathing problems",
                                 "can't breathe">>] >>],
       [category |-> "digestive",
        keywords |-> <<"nausea", "vomiting", "diarrhea", "stomach pain",
                       "constipation">>,
        severity_indicators |->
            << [level |-> "mild",
                indicators |-> <<"slight nausea", "mild stomach upset">>],
               [level |-> "moderate",
                indicators |-> <<"vomiting", "stomach pain">>],
               [level |-> "severe",
                indicators |-> <<"severe vomiting",
                                 "intense stomach pain">>] >>],
       [category |-> "neurological",
        keywords |-> <<"headache", "dizziness", "confusion", "memory problems">>,
        severity_indicators |->
            << [level |-> "mild",
                indicators |-> <<"mild headache", "slight dizziness">>],
               [level |-> "moderate", indicators |-> <<"headache", "dizzy">>],
               [level |-> "severe",
                indicators |-> <<"severe headache", "extreme dizziness",
                                 "confusion">>] >>] >>

_load_medical_knowledge ==
    [common_conditions |->
        << [name |-> "cold",
            symptoms |-> <<"runny nose", "sneezing", "mild cough", "sore throat">>,
            recommendations |->
                <<"Get plenty of rest", "Drink fluids",
                  "Consider over-the-counter medications",
                  "Monitor symptoms for 7-10 days">>],
           [name |-> "flu",
            symptoms |-> <<"fever", "body aches", "fatigue", "cough">>,
            recommendations |->
                <<"Rest and isolation", "Increase fluid intake",
                  "Consider antiviral medication if within 48 hours",
                  "Seek medical care if symptoms worsen">>],
           [name |-> "headache",
            symptoms |-> <<"head pain", "pressure", "tension">>,
            recommendations |->
                <<"Rest in a quiet, dark room", "Apply cold or warm compress",
                  "Stay hydrated", "Consider over-the-counter pain relievers">>],
           [name |-> "stomach_bug",
            symptoms |-> <<"nausea", "vomiting", "diarrhea", "stomach cramps">>,
            recommendations |->
                <<"Stay hydrated with clear fluids",
                  "BRAT diet (bananas, rice, applesauce, toast)", "Rest",
                  "Avoid dairy and fatty foods">>] >>,
     general_advice |->
        <<"This is not a substitute for professional medical advice",
          "Consult a healthcare provider for persistent or severe symptoms",
          "Call emergency services for life-threatening situations",
          "Keep track of your symptoms and their progression">>]

EmergencyKeywords ==
    <<"chest pain", "heart attack", "stroke", "seizure", "unconscious",
      "difficulty breathing", "severe bleeding", "poisoning", "overdose",
      "severe allergic reaction", "broken bone", "head injury">>


(***************************************************************************)
(* re.findall for the five symptom patterns.  Each pattern is a literal    *)
(* prefix, the lazy capture (.*?), and what must follow the capture:       *)
(*   stop = "clause"  : (?:\.|$), a full stop or the end of the string;    *)
(*   stop = "literal" : the literal suffix, then the optional opt.         *)
(***************************************************************************)
symptom_patterns ==
    << [prefix |-> "i have ",      stop |-> "clause",  suffix |-> "", opt |-> ""],
       [prefix |-> "experiencing ", stop |-> "clause", suffix |-> "", opt |-> ""],
       [prefix |-> "feeling ",     stop |-> "clause",  suffix |-> "", opt |-> ""],
       [prefix |-> "my ",  stop |-> "literal", suffix |-> " hurt", opt |-> "s"],
       [prefix |-> "",     stop |-> "literal", suffix |-> " is bothering me",
        opt |-> ""] >>

\* lit occurs in s at position i.
HasAt(s, lit, i) ==
    /\ i + Len(lit) - 1 <= Len(s)
    /\ SubSeq(s, i, i + Len(lit) - 1) = lit

\* What follows the capture matches at position q.  `$` matches at the end of
\* the string and before a newline that ends it.
RestMatchesAt(pat, s, q) ==
    IF pat.stop = "clause"
    THEN \/ HasAt(s, ".", q)
         \/ q = Len(s) + 1
         \/ (q = Len(s) /\ Char(s, q) = "\n")
    ELSE HasAt(s, pat.suffix, q)

\* Every position at which what follows the capture matches.
Stops(pat, s) == {q \in 1..(Len(s) + 1) : RestMatchesAt(pat, s, q)}

\* q if the capture can run from c up to q (`.` matches no newline), else 0.
CaptureUpTo(s, c, q) ==
    IF \E k \in c..(q - 1) : Char(s, k) = "\n" THEN 0 ELSE q

\* The lazy capture (.*?) from c on ends before the first stop at or after c
\* that it can reach; 0 if there is none.
FirstStop(s, c, later) ==
    IF later = {} THEN 0 ELSE CaptureUpTo(s, c, SetMin(later))

LazyStop(s, stops, c) == FirstStop(s, c, {q \in stops : q >= c})

\* The position after a match whose capture ends before q.
MatchEnd(pat, s, q) ==
    IF pat.stop = "clause"
    THEN IF HasAt(s, ".", q) THEN q + 1 ELSE q
    ELSE IF pat.opt # "" /\ HasAt(s, pat.opt, q + Len(pat.suffix))
         THEN q + Len(pat.suffix) + Len(pat.opt)
         ELSE q + Len(pat.suffix)

\* The positions from pos on at which the pattern matches.
MatchStarts(pat, s, stops, pos) ==
    {p \in pos..(Len(s) + 1) :
        /\ HasAt(s, pat.prefix, p)
        /\ LazyStop(s, stops, p + Len(pat.prefix)) # 0}

RECURSIVE FindAllFrom(_, _, _, _)
\* The match whose capture is c..q-1, then the matches after it.
EmitCapture(pat, s, stops, c, q) ==
    <<SubSeq(s, c, q - 1)>> \o FindAllFrom(pat, s, stops, MatchEnd(pat, s, q))

EmitAt(pat, s, stops, c) == EmitCapture(pat, s, stops, c, LazyStop(s, stops, c))

EmitFirst(pat, s, stops, starts) ==
    IF starts = {} THEN <<>>
    ELSE EmitAt(pat, s, stops, SetMin(starts) + Len(pat.prefix))

\* The captures of the non-overlapping matches, leftmost first, from pos on.
FindAllFrom(pat, s, stops, pos) ==
    EmitFirst(pat, s, stops, MatchStarts(pat, s, stops, pos))

\* re.findall(pattern, message, re.IGNORECASE); message is already lower case.
findall(pat, s) == FindAllFrom(pat, s, Stops(pat, s), 1)

(***************************************************************************)
(* HealthAI                                                                *)
(***************************************************************************)
\* SymptomAnalysis(...): is_emergency and response take their defaults
\* unless given.
SymptomAnalysis(symptoms, severity, urgency, confidence, recommendations, potential_conditions) ==
    [symptoms |-> symptoms, severity |-> severity, urgency |-> urgency,
     confidence |-> confidence, recommendations |-> recommendations,
     potential_conditions |-> potential_conditions,
     is_emergency |-> FALSE, response |-> ""]

_is_emergency(msg) ==
    \E i \in 1..Len(emergency_keywords) : Contains(emergency_keywords[i], msg)

\* The first recommendation starts with a siren emoji in the source; the
\* model's strings are ASCII and leave it out.
EmergencyRecommendations ==
    <<"EMERGENCY: Call emergency services immediately (911)",
      "If possible, go to the nearest emergency room",
      "Do not drive yourself if experiencing severe symptoms",
      "Stay calm and follow emergency operator instructions">>

_create_emergency_response(msg) ==
    SymptomAnalysis(<<"emergency situation detected">>, "severe", "emergency",
                    90, EmergencyRecommendations, <<"medical emergency">>)

\* The keywords of every category, in the order the loops visit them.
AllKeywords ==
    Flatten([c \in 1..Len(symptom_keywords) |-> symptom_keywords[c].keywords])

\* Pass 1: every keyword of every category that occurs in the message.
KeywordPass(msg) ==
    SelectSeq(AllKeywords, LAMBDA keyword : Contains(keyword, msg))

\* Fault variant of KeepMatch: the `not in symptoms` test is left out.
KeepMatch_NoDedup(clean_symptom, symptoms) == Len(clean_symptom) > 2

\* Line 210: a cleaned match is appended if it is longer than 2 characters and
\* not yet in the list.
KeepMatch(clean_symptom, symptoms) ==
    Len(clean_symptom) > 2 /\ ~InSeq(clean_symptom, symptoms)

\* Fault variant of AddMatch: a kept match is put at the front of the list.
AddMatch_Front(symptoms, clean_symptom) ==
    IF KeepMatch(clean_symptom, symptoms)
    THEN <<clean_symptom>> \o symptoms
    ELSE symptoms

AddMatch(symptoms, clean_symptom) ==
    IF KeepMatch(clean_symptom, symptoms)
    THEN Append(symptoms, clean_symptom)
    ELSE symptoms

RECURSIVE AddMatches(_, _, _)
\* Lines 208-211 for the matches from the i-th on.
AddMatches(symptoms, matches, i) ==
    IF i > Len(matches) THEN symptoms
    ELSE AddMatches(AddMatch(symptoms, strip(matches[i])), matches, i + 1)

RECURSIVE PatternPass(_, _, _)
\* Pass 2: the patterns from the p-th on, in order.
PatternPass(symptoms, msg, p) ==
    IF p > Len(symptom_patterns) THEN symptoms
    ELSE PatternPass(AddMatches(symptoms, findall(symptom_patterns[p], msg), 1),
                     msg, p + 1)

MaxSymptoms == 10

\* Fault variant of LimitSymptoms: the list is returned whole.
LimitSymptoms_Whole(symptoms) == symptoms

\* symptoms[:10]
LimitSymptoms(symptoms) == SubSeq(symptoms, 1, Min(MaxSymptoms, Len(symptoms)))

\* Fault variant of _extract_symptoms: the list is kept between calls (an
\* attribute of the instance, or a mutable default) and never cleared.
_extract_symptoms_Kept(msg) ==
    LimitSymptoms(PatternPass(analysis.symptoms \o KeywordPass(msg), msg, 1))

_extract_symptoms(msg) == LimitSymptoms(PatternPass(KeywordPass(msg), msg, 1))

IndicatorWeight(level) ==
    CASE level = "mild" -> 1
      [] level = "moderate" -> 3
      [] level = "severe" -> 5
      [] OTHER -> 0

\* One [level, indicator] per indicator phrase, in the loops' order.
SeverityIndicators ==
    Flatten([c \in 1..Len(symptom_keywords) |->
        Flatten([l \in 1..Len(symptom_keywords[c].severity_indicators) |->
            [k \in 1..Len(symptom_keywords[c].severity_indicators[l].indicators) |->
                [level |-> symptom_keywords[c].severity_indicators[l].level,
                 indicator |->
                     symptom_keywords[c].severity_indicators[l].indicators[k]]]])])

\* Fault variant of IndicatorScore: the scan ends at the first indicator found.
IndicatorScore_FirstOnly(indicators, msg) ==
    IF \E k \in 1..Len(indicators) : Contains(indicators[k].indicator, msg)
    THEN IndicatorWeight(indicators[
             SetMin({k \in 1..Len(indicators) :
                        Contains(indicators[k].indicator, msg)})].level)
    ELSE 0

\* Lines 220-229: the weight of every indicator phrase found in the message.
IndicatorScore(indicators, msg) ==
    SumSeq([k \in 1..Len(indicators) |->
               IF Contains(indicators[k].indicator, msg)
               THEN IndicatorWeight(indicators[k].level)
               ELSE 0])

\* severity_score after line 232.
severity_score(msg, symptoms) ==
    IndicatorScore(SeverityIndicators, msg) + Len(symptoms)

\* Fault variant of SeverityOfScore: strict comparisons at the thresholds.
SeverityOfScore_Strict(score) ==
    IF score > 8 THEN "severe"
    ELSE IF score > 4 THEN "moderate"
    ELSE "mild"

\* Lines 234-239.
SeverityOfScore(score) ==
    IF score >= 8 THEN "severe"
    ELSE IF score >= 4 THEN "moderate"
    ELSE "mild"

_assess_severity(msg, symptoms) == SeverityOfScore(severity_score(msg, symptoms))

\* Fault variant of _assess_urgency: the symptoms argument raises the urgency.
_assess_urgency_BySymptoms(severity, symptoms) ==
    IF severity = "severe" \/ Len(symptoms) >= 3 THEN "high"
    ELSE IF severity = "moderate" THEN "medium"
    ELSE "low"

_assess_urgency(severity, symptoms) ==
    IF severity = "severe" THEN "high"
    ELSE IF severity = "moderate" THEN "medium"
    ELSE "low"

SevereAdvice ==
    <<"Seek immediate medical attention",
      "Consider visiting an urgent care center or emergency room",
      "Monitor symptoms closely">>
ModerateAdvice ==
    <<"Consider consulting with a healthcare provider",
      "Monitor symptoms for changes",
      "Rest and self-care measures may help">>
MildAdvice ==
    <<"Try home remedies and self-care",
      "Monitor symptoms for any worsening",
      "Consider over-the-counter treatments if appropriate">>
FeverAdvice == "Stay hydrated and consider fever reducers"
PainAdvice == "Apply appropriate hot/cold therapy"
CoughAdvice == "Try throat lozenges or warm liquids"

\* Lines 276-281: at most one piece of advice per symptom, first match.
SymptomAdvice(symptom) ==
    IF Contains("fever", symptom) THEN <<FeverAdvice>>
    ELSE IF Contains("pain", symptom) THEN <<PainAdvice>>
    ELSE IF Contains("cough", symptom) THEN <<CoughAdvice>>
    ELSE <<>>

\* Fault variant of RecommendationList: the general advice is not appended.
RecommendationList_NoGeneral(symptoms, severity) ==
    (IF severity = "severe" THEN SevereAdvice
     ELSE IF severity = "moderate" THEN ModerateAdvice
     ELSE MildAdvice)
    \o Flatten([i \in 1..Len(symptoms) |-> SymptomAdvice(symptoms[i])])

\* The list before line 286.
RecommendationList(symptoms, severity) ==
    (IF severity = "severe" THEN SevereAdvice
     ELSE IF severity = "moderate" THEN ModerateAdvice
     ELSE MildAdvice)
    \o Flatten([i \in 1..Len(symptoms) |-> SymptomAdvice(symptoms[i])])
    \o medical_knowledge.general_advice

Range(seq) == {seq[i] : i \in 1..Len(seq)}

\* Every string _generate_recommendations can put in its list.
AdviceStrings ==
    SevereAdvice \o ModerateAdvice \o MildAdvice
    \o <<FeverAdvice, PainAdvice, CoughAdvice>>
    \o _load_medical_knowledge.general_advice

\* The advice strings in the order of their slots in a set's table.  The slot
\* of a string depends on the process's hash seed, not on the order of
\* insertion: the i-th string has slot (i * hashseed) % 17 (17 is prime and
\* exceeds the number of strings, so no two share a slot).
AdviceBySlot ==
    [k \in 1..Len(AdviceStrings) |->
        AdviceStrings[CHOOSE i \in 1..Len(AdviceStrings) : (i * hashseed) % 17 = k]]

RECURSIVE SlotList(_)
\* The elements of a set in some order.
SlotList(S) ==
    IF S = {} THEN <<>>
    ELSE <<CHOOSE x \in S : TRUE>> \o SlotList(S \ {CHOOSE x \in S : TRUE})

\* list(set): each element once, in the order of the slots.
SetToList(S) ==
    SlotList(S \ Range(AdviceStrings))
        \o SelectSeq(AdviceBySlot, LAMBDA x : x \in S)

\* Fault variant of _generate_recommendations: the list is returned as it
\* was built, without list(set(..)).
_generate_recommendations_NoDedup(symptoms, severity) ==
    RecommendationList(symptoms, severity)

\* HealthAI._generate_recommendations(symptoms, severity)
_generate_recommendations(symptoms, severity) ==
    SetToList(Range(RecommendationList(symptoms, severity)))

RECURSIVE LowerEach(_)
LowerEach(strings) ==
    IF strings = <<>> THEN <<>>
    ELSE <<lower(Head(strings))>> \o LowerEach(Tail(strings))

\* Lines 295-297 for one condition symptom: one count per user symptom that
\* contains it.
CountContaining(condition_symptom, user_symptoms) ==
    Cardinality({u \in 1..Len(user_symptoms) :
                    Contains(condition_symptom, user_symptoms[u])})

\* Lines 293-297: match_count is raised once per pair of a condition symptom
\* and a user symptom that contains it (both lowered).
match_count(condition_symptoms, user_symptoms) ==
    SumSeq([c \in 1..Len(condition_symptoms) |->
               CountContaining(condition_symptoms[c], user_symptoms)])

ConditionMatches(condition, user_symptoms) ==
    match_count(LowerEach(condition.symptoms), user_symptoms) >= 2

RECURSIVE DisplayNames(_)
\* condition.replace('_', ' ').title() for each matched condition.
DisplayNames(conditions) ==
    IF conditions = <<>> THEN <<>>
    ELSE <<title(replace(Head(conditions).name, "_", " "))>>
             \o DisplayNames(Tail(conditions))

MatchedConditions(user_symptoms) ==
    SelectSeq(medical_knowledge.common_conditions,
              LAMBDA condition : ConditionMatches(condition, user_symptoms))

_identify_conditions(symptoms) ==
    DisplayNames(MatchedConditions(LowerEach(symptoms)))

\* Fault variant of _calculate_confidence: the final cap is left out.
_calculate_confidence_NoCap(symptoms, msg) ==
    60 + Min(Len(symptoms) * 10, 30) + Min(word_count(msg) * 1, 10)

_calculate_confidence(symptoms, msg) ==
    Min(60 + Min(Len(symptoms) * 10, 30) + Min(word_count(msg) * 1, 10), 95)

\* Lines 156-163, with severity known.
AnalysisOf(msg, symptoms, severity) ==
    SymptomAnalysis(symptoms, severity,
                    _assess_urgency(severity, symptoms),
                    _calculate_confidence(symptoms, msg),
                    _generate_recommendations(symptoms, severity),
                    _identify_conditions(symptoms))

\* Lines 144-163, with the symptoms known.
AnalyzeSymptoms(msg, symptoms) ==
    AnalysisOf(msg, symptoms, _assess_severity(msg, symptoms))

\* Fault variant of AnalyzeNormalized: the emergency check comes after the
\* extraction and is made only when nothing was extracted.
AnalyzeNormalized_ExtractFirst(msg) ==
    IF _extract_symptoms(msg) # <<>>
    THEN AnalyzeSymptoms(msg, _extract_symptoms(msg))
    ELSE IF _is_emergency(msg) THEN _create_emergency_response(msg)
    ELSE AnalyzeSymptoms(msg, <<>>)

\* Lines 137-163, on the lowered and stripped message.
AnalyzeNormalized(msg) ==
    IF _is_emergency(msg) THEN _create_emergency_response(msg)
    ELSE AnalyzeSymptoms(msg, _extract_symptoms(msg))

\* message.lower().strip()
Normalize(text) == strip(lower(text))

HealthAI_analyze_message(text) == AnalyzeNormalized(Normalize(text))

\* str(value) of an Optional string, as an f-string renders it.
PyFormat(value) == IF value = <<>> THEN "None" ELSE value[1]

RECURSIVE Join(_, _)
\* sep.join(parts)
Join(parts, sep) ==
    IF parts = <<>> THEN ""
    ELSE IF Len(parts) = 1 THEN parts[1]
    ELSE parts[1] \o sep \o Join(Tail(parts), sep)

\* seq[:n]
FirstN(seq, n) == SubSeq(seq, 1, Min(n, Len(seq)))

\* f"{confidence:.0%}": the confidence is a whole number of hundredths.
Percent(confidence) == ToString(confidence) \o "%"

\* Lines 342-343: f"{i}. {rec}" for enumerate(recommendations, 1).
NumberedRecommendations(recommendations) ==
    [i \in 1..Len(recommendations) |->
        ToString(i) \o ". " \o recommendations[i]]

_format_emergency_response ==
    "EMERGENCY DETECTED \n\nThis appears to be a medical emergency!\n\n"
    \o "IMMEDIATE ACTIONS:\n1. Call emergency services (911) NOW\n"
    \o "2. If possible, go to the nearest emergency room\n"
    \o "3. Do not drive yourself\n"
    \o "4. Stay calm and follow emergency operator instructions\n\n"
    \o "This AI cannot provide emergency medical care. "
    \o "Please seek immediate professional help.\n\nStay safe! "

Disclaimer ==
    "This is AI-generated advice. Always consult healthcare professionals for serious concerns."

\* Fault variant of response_parts: the symptoms line and the conditions line
\* are appended whether or not there is anything to list.
response_parts_AllSections(a, name) ==
    <<"Hi " \o PyFormat(name) \o "! I've analyzed your symptoms.",
      "Symptoms identified: " \o Join(FirstN(a.symptoms, 5), ", "),
      "Severity: " \o title(a.severity),
      "This might be related to: " \o Join(a.potential_conditions, ", "),
      "Recommendations:">>
    \o NumberedRecommendations(FirstN(a.recommendations, 6))
    \o <<"Confidence: " \o Percent(a.confidence), Disclaimer>>

\* Lines 322-347: response_parts on the normal path.
response_parts(a, name) ==
    <<"Hi " \o PyFormat(name) \o "! I've analyzed your symptoms.">>
    \o (IF a.symptoms # <<>>
        THEN <<"Symptoms identified: " \o Join(FirstN(a.symptoms, 5), ", ")>>
        ELSE <<>>)
    \o <<"Severity: " \o title(a.severity)>>
    \o (IF a.potential_conditions # <<>>
        THEN <<"This might be related to: "
                   \o Join(a.potential_conditions, ", ")>>
        ELSE <<>>)
    \o <<"Recommendations:">>
    \o NumberedRecommendations(FirstN(a.recommendations, 6))
    \o <<"Confidence: " \o Percent(a.confidence), Disclaimer>>

\* Fault variant of format_response: the path is chosen by is_emergency.
format_response_ByFlag(a, name) ==
    IF a.is_emergency THEN _format_emergency_response
    ELSE Join(response_parts(a, name), "\n\n")

\* HealthAI.format_response(analysis, user_name)
format_response(a, name) ==
    IF a.urgency = "emergency" THEN _format_emergency_response
    ELSE Join(response_parts(a, name), "\n\n")

(***************************************************************************)
(* EnhancedAI                                                              *)
(***************************************************************************)
health_keywords ==
    <<"pain", "hurt", "ache", "fever", "sick", "ill", "nausea", "vomit",
      "headache", "stomach", "cough", "cold", "flu", "dizzy", "tired",
      "fatigue", "symptom", "doctor", "medicine", "treatment", "health",
      "medical", "hospital", "injury", "wound", "bleeding", "infection",
      "allergy", "rash", "breathing", "chest", "heart", "temperature",
      "swollen", "sore", "cramp", "sprain", "broken", "burn", "cut">>

health_patterns ==
    <<"i feel", "i have", "my body", "experiencing", "suffering from",
      "what should i do for", "how to treat", "is it normal",
      "should i see a doctor", "medical advice">>

\* Lines 49-64, on the lowered message.
HealthWordIn(message_lower) ==
    \/ \E k \in 1..Len(health_keywords) :
           Contains(health_keywords[k], message_lower)
    \/ \E k \in 1..Len(health_patterns) :
           Contains(health_patterns[k], message_lower)

\* Fault variant of is_health_related: only the keywords are looked for.
is_health_related_KeywordsOnly(text) ==
    \E k \in 1..Len(health_keywords) : Contains(health_keywords[k], lower(text))

is_health_related(text) == HealthWordIn(lower(text))

_get_fallback_health_response(name) ==
    "Hi " \o PyFormat(name)
    \o "! I'm having trouble analyzing your symptoms right now.\n        \n"
    \o "For health concerns, I recommend:\n"
    \o "Consulting with a healthcare professional\n"
    \o "Calling your doctor if symptoms are concerning\n"
    \o "Visiting urgent care for serious issues\n"
    \o "Calling 911 for emergencies\n\n"
    \o "You can also try rephrasing your question and I'll do my best to help!"

_get_fallback_general_response(name) ==
    "Hi " \o PyFormat(name)
    \o "! I'm currently optimized for health and medical questions.\n        \n"
    \o "I can help you with:\n"
    \o "Symptom analysis\n"
    \o "Health recommendations  \n"
    \o "Medical advice and guidance\n"
    \o "Emergency situation assessment\n\n"
    \o "Try asking me about any health concerns you might have!\n\n"
    \o "For other topics, I'm still learning. My AI capabilities are expanding soon!"

\* Line 83
HealthNote ==
    "\n\nI can also help with general questions, advice, or any other topics!"

\* Line 114
GeneralNote ==
    "\n\nNeed health advice? I can also analyze symptoms and provide medical guidance!"

(***************************************************************************)
(* The messages the model sends: every concatenation of at most MaxFrags   *)
(* of these fragments (the empty message included).                        *)
(***************************************************************************)
Fragments ==
    {" \n\t ",
     "Chest Pain ",
     "I have a severe headache and fever",
     " sore hot stomach pain, cough, chills, nausea",
     "I have fever. ",
     "feeling dizzy. ",
     "my arm hurts ",
     "I have pressure and tension. ",
     "tell me a joke "}

RECURSIVE MessagesOf(_)
MessagesOf(n) ==
    IF n = 0 THEN {""}
    ELSE {m \o f : m \in MessagesOf(n - 1), f \in Fragments \cup {""}}

Inputs == MessagesOf(MaxFrags)

\* The messages of a later call: the previous message again, the previous
\* message with one more fragment, or a message of at most one fragment.
\* (Every input is analysed as a first message; this keeps the number of
\* steps linear in the number of inputs.)
FollowUps(previous) ==
    {previous} \cup ({previous \o f : f \in Fragments} \cap Inputs)
               \cup MessagesOf(1)

\* Seeds of the string hash, one per process (PYTHONHASHSEED).
HashSeeds == {1, 6}

\* The identifiers the rate limiter is asked about.
Identifiers == {"+15550001", "+15550002"}

\* The arguments RateLimiter is constructed with: max_calls and time_window.
LimiterMaxCalls == {1, 2}
LimiterWindows == {2, 3}

\* The phone numbers of the users.
Phones == {"+15550001", "+15550002"}

(***************************************************************************)
(* The state machine: a HealthAI instance and the calls made on it.        *)
(***************************************************************************)
\* The value of `analysis` before the first call.
NoAnalysis == SymptomAnalysis(<<>>, "", "", 0, <<>>, <<>>)

\* HealthAI.__init__
Init ==
    /\ symptom_keywords = _load_symptom_keywords
    /\ medical_knowledge = _load_medical_knowledge
    /\ emergency_keywords = EmergencyKeywords
    /\ hashseed \in HashSeeds
    /\ message = ""
    /\ analysis = NoAnalysis
    /\ calls = "none"
    /\ formatted = NoAnalysis
    /\ user_name = <<"there">>
    /\ response = ""
    /\ raised = FALSE
    /\ gemini_available = FALSE
    /\ asked = ""
    /\ handled = <<>>
    /\ users = [p \in Phones |-> <<>>]
    /\ messages = <<>>
    /\ analyses = <<>>
    /\ deleted = <<>>
    /\ user_info = <<>>
    /\ bot_reply = <<>>
    /\ bot_message = ""
    /\ branch = ""
    /\ failed = <<>>
    /\ max_calls = SetMax(LimiterMaxCalls)
    /\ time_window = SetMax(LimiterWindows)
    /\ rate_calls = [identifier \in Identifiers |-> <<>>]
    /\ clock = 0
    /\ granted = [identifier \in Identifiers |-> <<>>]
    /\ last_call = <<>>
    /\ chunk_input = <<>>
    /\ chunks = <<>>

\* Fault variant of analyze_message: the recommendations are built in the
\* knowledge base's own general_advice list instead of a new list.
analyze_message_SharedList(text) ==
    /\ message' = text
    /\ analysis' = HealthAI_analyze_message(text)
    /\ calls' = "analyzed"
    /\ medical_knowledge' =
           [medical_knowledge EXCEPT !.general_advice = analysis'.recommendations]
    /\ UNCHANGED <<symptom_keywords, emergency_keywords, hashseed>>
    /\ UNCHANGED <<reply_vars, db_vars, bot_vars, util_vars>>

\* HealthAI.analyze_message(text)
analyze_message(text) ==
    /\ message' = text
    /\ analysis' = HealthAI_analyze_message(text)
    /\ calls' = "analyzed"
    /\ UNCHANGED <<symptom_keywords, medical_knowledge, emergency_keywords,
                   hashseed>>
    /\ UNCHANGED <<reply_vars, db_vars, bot_vars, util_vars>>

\* HealthAI.analyze_message called again with the text of the last call.
repeat_message ==
    /\ calls # "none"
    /\ message' = message
    /\ analysis' = HealthAI_analyze_message(message)
    /\ calls' = "repeated"
    /\ UNCHANGED <<symptom_keywords, medical_knowledge, emergency_keywords,
                   hashseed>>
    /\ UNCHANGED <<reply_vars, db_vars, bot_vars, util_vars>>

\* HealthAI() is constructed again, in a process of its own: the knowledge
\* base is loaded afresh and the process has its own hash seed.  The caller
\* still holds the last message and the analysis it got for it.
new_instance ==
    /\ calls # "none"
    /\ symptom_keywords' = _load_symptom_keywords
    /\ medical_knowledge' = _load_medical_knowledge
    /\ emergency_keywords' = EmergencyKeywords
    /\ hashseed' \in HashSeeds
    /\ UNCHANGED <<message, analysis, calls, reply_vars, db_vars, bot_vars, util_vars>>

\* One instance and the calls made on it.
Next ==
    \E text \in (IF calls = "none" THEN Inputs ELSE FollowUps(message)) :
        analyze_message(text)

Spec == Init /\ [][Next]_vars

\* A message is analysed, then analysed again, by the same instance or by
\* one constructed in between.
FirstCall == calls = "none" /\ \E text \in Inputs : analyze_message(text)

NextRepeat == FirstCall \/ repeat_message \/ new_instance

SpecRepeat == Init /\ [][NextRepeat]_vars

\* The user names of the calls: the default, a name, and None.
UserNames == {<<"there">>, <<"Asha">>, <<>>}

\* The analyses format_response is called with: the one analyze_message
\* returned, and that one with its urgency or its is_emergency set by the
\* caller.
FormatInputs(a) ==
    {a, [a EXCEPT !.urgency = "emergency"], [a EXCEPT !.is_emergency = TRUE]}

\* HealthAI.format_response(a, name)
call_format_response(a, name) ==
    /\ calls # "none"
    /\ formatted' = a
    /\ user_name' = name
    /\ response' = format_response(a, name)
    /\ raised' = FALSE
    /\ UNCHANGED <<core_vars, gemini_available, asked, handled, db_vars, bot_vars, util_vars>>

\* A message is analysed and the analysis is formatted.
NextFormat ==
    \/ FirstCall
    \/ \E a \in FormatInputs(analysis), name \in UserNames :
           call_format_response(a, name)

SpecFormat == Init /\ [][NextFormat]_vars

\* HealthAI.get_health_tips(): a new list of seven fixed tips.
get_health_tips ==
    <<"Stay hydrated - drink 8 glasses of water daily",
      "Get regular exercise - at least 30 minutes daily",
      "Maintain good sleep hygiene - 7-9 hours per night",
      "Eat a balanced diet with plenty of fruits and vegetables",
      "Wash your hands regularly to prevent infections",
      "Manage stress through relaxation techniques",
      "Schedule regular check-ups with your healthcare provider">>

\* EnhancedAI.get_health_tips(): the tips of HealthAI.get_health_tips, one
\* per line.
EnhancedAI_get_health_tips == Join(get_health_tips, "\n")

\* get_health_tips is called.
call_get_health_tips ==
    /\ response' = EnhancedAI_get_health_tips
    /\ raised' = FALSE
    /\ UNCHANGED <<core_vars, formatted, user_name, gemini_available, asked,
                   handled, db_vars, bot_vars, util_vars>>

\* The messages of the calls of SpecCalls.
CallTexts ==
    {"I have fever. ", "Chest Pain ", "I have a severe headache and fever",
     " sore hot stomach pain, cough, chills, nausea", "tell me a joke "}

\* Any sequence of analyze_message, format_response and get_health_tips
\* calls on one instance.
NextCalls ==
    \/ \E text \in CallTexts : analyze_message(text)
    \/ \E name \in UserNames : call_format_response(analysis, name)
    \/ call_get_health_tips

SpecCalls == Init /\ [][NextCalls]_vars

\* An exception raised inside the triage pipeline, if any: by
\* HealthAI.analyze_message or by HealthAI.format_response.
PipelineFaults == {"none", "analyze_message", "format_response"}

\* What generate_content does: it raises (<<>>) or returns a text.
GeminiReplies == {<<>>, <<"Here is a joke.">>}

\* The names EnhancedAI.analyze_message is called with.
CallerNames == {<<"there">>, <<"Asha">>}

\* EnhancedAI.__init__: a HealthAI is constructed; Gemini is available if a
\* key is set and configuring it succeeds.  Nothing has been asked of the new
\* object.
EnhancedAI_init(available) ==
    /\ symptom_keywords' = _load_symptom_keywords
    /\ medical_knowledge' = _load_medical_knowledge
    /\ emergency_keywords' = EmergencyKeywords
    /\ gemini_available' = available
    /\ asked' = ""
    /\ handled' = <<>>
    /\ response' = ""
    /\ raised' = FALSE
    /\ UNCHANGED <<hashseed, message, analysis, calls, formatted, user_name,
                   db_vars, bot_vars, util_vars>>

\* Fault variant of _handle_health_question: no try/except around the
\* pipeline.
_handle_health_question_NoCatch(text, name, fault) ==
    /\ handled' = <<"health">>
    /\ IF fault = "none"
       THEN /\ message' = text
            /\ analysis' = HealthAI_analyze_message(text)
            /\ calls' = "analyzed"
            /\ formatted' = analysis'
            /\ response' = format_response(analysis', name)
                              \o (IF gemini_available THEN HealthNote ELSE "")
            /\ raised' = FALSE
       ELSE /\ raised' = TRUE
            /\ UNCHANGED <<message, analysis, calls, formatted, response>>

\* EnhancedAI._handle_health_question(text, name).  handled records the
\* handler and, when the except branch ran, the error it logs.
_handle_health_question(text, name, fault) ==
    /\ raised' = FALSE
    /\ IF fault = "analyze_message"
       THEN /\ handled' = <<"health", "error">>
            /\ response' = _get_fallback_health_response(name)
            /\ UNCHANGED <<message, analysis, calls, formatted>>
       ELSE /\ message' = text
            /\ analysis' = HealthAI_analyze_message(text)
            /\ calls' = "analyzed"
            /\ IF fault = "format_response"
               THEN /\ handled' = <<"health", "error">>
                    /\ response' = _get_fallback_health_response(name)
                    /\ UNCHANGED formatted
               ELSE /\ handled' = <<"health">>
                    /\ formatted' = analysis'
                    /\ response' =
                           format_response(analysis', name)
                               \o (IF gemini_available THEN HealthNote ELSE "")

\* Fault variant of _handle_general_question: no try/except around the call
\* of the delegate.
_handle_general_question_NoCatch(text, name, reply) ==
    /\ IF ~gemini_available
       THEN /\ handled' = <<"general">>
            /\ response' = _get_fallback_general_response(name)
            /\ raised' = FALSE
       ELSE IF reply = <<>>
       THEN /\ handled' = <<"general", "gemini">>
            /\ raised' = TRUE
            /\ UNCHANGED response
       ELSE /\ handled' = <<"general", "gemini">>
            /\ response' = "Hi " \o PyFormat(name) \o "! " \o reply[1]
                              \o GeneralNote
            /\ raised' = FALSE
    /\ UNCHANGED <<message, analysis, calls, formatted>>

\* EnhancedAI._handle_general_question(text, name); reply is what
\* generate_content does if it is called.
_handle_general_question(text, name, reply) ==
    /\ raised' = FALSE
    /\ IF ~gemini_available
       THEN /\ handled' = <<"general">>
            /\ response' = _get_fallback_general_response(name)
       ELSE IF reply = <<>>
       THEN /\ handled' = <<"general", "gemini", "error">>
            /\ response' = _get_fallback_general_response(name)
       ELSE /\ handled' = <<"general", "gemini">>
            /\ response' = "Hi " \o PyFormat(name) \o "! " \o reply[1]
                              \o GeneralNote
    /\ UNCHANGED <<message, analysis, calls, formatted>>

\* EnhancedAI.analyze_message(text, name)
EnhancedAI_analyze_message(text, name) ==
    /\ asked' = text
    /\ user_name' = name
    /\ IF is_health_related(text)
       THEN \E fault \in PipelineFaults :
                _handle_health_question(text, name, fault)
       ELSE \E reply \in GeminiReplies :
                _handle_general_question(text, name, reply)
    /\ UNCHANGED <<symptom_keywords, medical_knowledge, emergency_keywords,
                   hashseed, gemini_available>>

\* An EnhancedAI is constructed, with or without Gemini, and asked one
\* message.
NextEnhanced ==
    \/ /\ handled = <<>>
       /\ \E available \in BOOLEAN : EnhancedAI_init(available)
    \/ /\ handled = <<>>
       /\ \E text \in Inputs, name \in CallerNames :
              EnhancedAI_analyze_message(text, name)
       /\ UNCHANGED <<db_vars, bot_vars, util_vars>>

SpecEnhanced == Init /\ [][NextEnhanced]_vars

\* Messages that contain an emergency phrase: each phrase of the triage
\* list alone, and inside a sentence in title case.
EmergencyTexts ==
    {EmergencyKeywords[i] : i \in 1..Len(EmergencyKeywords)}
        \cup {"Help, " \o title(EmergencyKeywords[i]) \o " now" :
                  i \in 1..Len(EmergencyKeywords)}

\* An EnhancedAI is constructed, with or without Gemini, and asked one
\* message that contains an emergency phrase.
NextGate ==
    \/ /\ handled = <<>>
       /\ \E available \in BOOLEAN : EnhancedAI_init(available)
    \/ /\ handled = <<>>
       /\ \E text \in EmergencyTexts, name \in CallerNames :
              EnhancedAI_analyze_message(text, name)
       /\ UNCHANGED <<db_vars, bot_vars, util_vars>>

SpecGate == Init /\ [][NextGate]_vars

(***************************************************************************)
(* DatabaseManager and WhatsAppBot._analyze_message.  A row of the users   *)
(* table is a record of its name (an Optional: NULL is <<>>) and its       *)
(* total_messages; a row of the messages table is a record of its          *)
(* phone_number, message_body and message_type.                            *)
(***************************************************************************)
\* The number of rows of the messages table the model lets be stored.
MaxMessages == 2

\* The names get_or_create_user is called with: none (NULL), or a name.
RegisteredNames == {<<>>, <<"Asha">>}

\* The message bodies stored by store_message.
Bodies == {"I have fever. "}

\* The message_type arguments of store_message.
MessageTypes == {"incoming", "outgoing", "analysis"}

\* CHECK(message_type IN ('incoming', 'outgoing')) of the messages table.
CheckMessageType(message_type) == message_type \in {"incoming", "outgoing"}

\* str(e) of the sqlite3.IntegrityError raised when the CHECK fails: SQLite
\* names the failed expression, or (older versions) the table.
IntegrityErrors ==
    {"CHECK constraint failed: message_type IN ('incoming', 'outgoing')",
     "CHECK constraint failed: messages"}

\* The users table after get_or_create_user(phone_number, name) has
\* committed: a new row holds the name and the default total_messages 0; an
\* existing row keeps its name.
UsersAfter_get_or_create_user(table, phone_number, name) ==
    IF table[phone_number] = <<>>
    THEN [table EXCEPT ![phone_number] =
              <<[name |-> name, total_messages |-> 0]>>]
    ELSE table

\* DatabaseManager.get_or_create_user(phone_number, name)
get_or_create_user(phone_number, name) ==
    /\ users' = UsersAfter_get_or_create_user(users, phone_number, name)
    /\ raised' = FALSE
    /\ deleted' = <<>>
    /\ UNCHANGED <<core_vars, formatted, user_name, response,
                   gemini_available, asked, handled, messages, analyses,
                   bot_vars, util_vars>>

\* Fault variant of store_message: the counter is incremented and committed
\* before the row is inserted, so that a rejected row leaves it incremented.
store_message_CountFirst(phone_number, message_body, message_type) ==
    /\ Len(messages) < MaxMessages
    /\ users' = [UsersAfter_get_or_create_user(users, phone_number, <<>>)
                     EXCEPT ![phone_number][1].total_messages = @ + 1]
    /\ IF CheckMessageType(message_type)
       THEN /\ messages' = Append(messages,
                               [phone_number |-> phone_number,
                                message_body |-> message_body,
                                message_type |-> message_type])
            /\ raised' = FALSE
       ELSE /\ raised' = TRUE
            /\ UNCHANGED messages
    /\ deleted' = <<>>
    /\ UNCHANGED <<core_vars, formatted, user_name, response,
                   gemini_available, asked, handled, analyses, bot_vars, util_vars>>

\* DatabaseManager.store_message(phone_number, message_body, message_type):
\* the user row is created with no name and committed first; then the row is
\* inserted and the counter is incremented in one transaction, which the
\* CHECK constraint rejects as a whole.
store_message(phone_number, message_body, message_type) ==
    /\ Len(messages) < MaxMessages
    /\ IF CheckMessageType(message_type)
       THEN /\ messages' = Append(messages,
                               [phone_number |-> phone_number,
                                message_body |-> message_body,
                                message_type |-> message_type])
            /\ users' =
                   [UsersAfter_get_or_create_user(users, phone_number, <<>>)
                        EXCEPT ![phone_number][1].total_messages = @ + 1]
            /\ raised' = FALSE
       ELSE /\ users' =
                   UsersAfter_get_or_create_user(users, phone_number, <<>>)
            /\ raised' = TRUE
            /\ UNCHANGED messages
    /\ deleted' = <<>>
    /\ UNCHANGED <<core_vars, formatted, user_name, response,
                   gemini_available, asked, handled, analyses, bot_vars, util_vars>>

\* DatabaseManager.get_user_info(phone_number): the row, or None.
get_user_info(phone_number) == users[phone_number]

\* user_info.get('name', 'there') if user_info else 'there': the default of
\* get is used only when the key is missing, and the key 'name' is in every
\* dict get_user_info returns.
NameOf(info) == IF info # <<>> THEN info[1].name ELSE <<"there">>

\* The messages the bot is asked to analyse.
BotTexts == {"I have fever. ", "Chest Pain ", "tell me a joke "}

\* WhatsAppBot._analyze_message(phone_number, text): the name is looked up,
\* EnhancedAI.analyze_message is called with it, and the interaction is
\* stored with message_type 'analysis', which the messages table rejects
\* after the user row has been committed; the except clause returns the
\* text of that exception, error.
WhatsAppBot_analyze_message(phone_number, text, error) ==
    /\ user_info' = get_user_info(phone_number)
    /\ EnhancedAI_analyze_message(text, NameOf(get_user_info(phone_number)))
    /\ users' = UsersAfter_get_or_create_user(users, phone_number, <<>>)
    /\ deleted' = <<>>
    /\ UNCHANGED <<messages, analyses>>
    /\ bot_reply' = <<"Debug Error: " \o error>>
    /\ bot_message' = text
    /\ branch' = "analysis"
    /\ failed' = <<"store_analysis">>
    /\ UNCHANGED util_vars

\* A bot is constructed with or without Gemini; users are registered,
\* messages are stored, and one message is analysed.
NextBot ==
    \/ /\ bot_reply = <<>>
       /\ messages = <<>>
       /\ \E available \in BOOLEAN : EnhancedAI_init(available)
    \/ \E phone_number \in Phones, name \in RegisteredNames :
           get_or_create_user(phone_number, name)
    \/ \E phone_number \in Phones, message_body \in Bodies,
          message_type \in MessageTypes :
           store_message(phone_number, message_body, message_type)
    \/ /\ bot_reply = <<>>
       /\ \E phone_number \in Phones, text \in BotTexts,
             error \in IntegrityErrors :
              WhatsAppBot_analyze_message(phone_number, text, error)

SpecBot == Init /\ [][NextBot]_vars

(***************************************************************************)
(* DatabaseManager: the analyses table and delete_user_data.               *)
(***************************************************************************)
\* json.dumps of a list of strings that hold no quote, backslash or
\* non-ASCII character.
json_dumps(strings) ==
    "[" \o Join([i \in 1..Len(strings) |-> "\"" \o strings[i] \o "\""], ", ")
        \o "]"

\* The analyses store_analysis is called with.
StoredAnalyses == {_create_emergency_response("chest pain")}

\* The original_message arguments of store_analysis.
StoredTexts == {"Chest Pain "}

\* DatabaseManager.store_analysis(phone_number, original_message, a): the
\* user row is created with no name if there is none, and one row is added
\* to the analyses table.
store_analysis(phone_number, original_message, a) ==
    /\ Len(analyses) < MaxMessages
    /\ users' = UsersAfter_get_or_create_user(users, phone_number, <<>>)
    /\ analyses' = Append(analyses,
                          [phone_number |-> phone_number,
                           original_message |-> original_message,
                           symptoms |-> json_dumps(a.symptoms),
                           severity |-> a.severity,
                           urgency |-> a.urgency,
                           confidence |-> a.confidence,
                           recommendations |-> json_dumps(a.recommendations),
                           potential_conditions |->
                               json_dumps(a.potential_conditions)])
    /\ raised' = FALSE
    /\ deleted' = <<>>
    /\ UNCHANGED <<core_vars, formatted, user_name, response,
                   gemini_available, asked, handled, messages, bot_vars, util_vars>>

\* The rows a SELECT .. WHERE phone_number = ? finds in a table: the rows
\* get_user_message_history reads from messages and get_user_analyses from
\* analyses (both return an empty list exactly when there is none).
RowsWhere(rows, phone_number) ==
    SelectSeq(rows, LAMBDA row : row.phone_number = phone_number)

\* The rows a DELETE .. WHERE phone_number = ? leaves in a table.
RowsAfterDelete(rows, phone_number) ==
    SelectSeq(rows, LAMBDA row : row.phone_number # phone_number)

\* DatabaseManager.export_user_data(phone_number): {} (here <<>>) without a
\* user row; else the user, its messages and its analyses.
export_user_data(phone_number) ==
    IF get_user_info(phone_number) = <<>> THEN <<>>
    ELSE <<[user_info |-> get_user_info(phone_number)[1],
            messages |-> RowsWhere(messages, phone_number),
            analyses |-> RowsWhere(analyses, phone_number)]>>

\* Fault variant of delete_user_data: the analyses are not deleted.
delete_user_data_KeepAnalyses(phone_number, ok) ==
    /\ IF ok
       THEN /\ messages' = RowsAfterDelete(messages, phone_number)
            /\ users' = [users EXCEPT ![phone_number] = <<>>]
            /\ deleted' = <<phone_number>>
            /\ UNCHANGED analyses
       ELSE /\ deleted' = <<>>
            /\ UNCHANGED <<users, messages, analyses>>
    /\ raised' = FALSE
    /\ UNCHANGED <<core_vars, formatted, user_name, response,
                   gemini_available, asked, handled, bot_vars, util_vars>>

\* DatabaseManager.delete_user_data(phone_number): the three DELETEs are
\* committed together and True is returned (ok), or one of them raises, the
\* transaction is rolled back and False is returned.
delete_user_data(phone_number, ok) ==
    /\ IF ok
       THEN /\ messages' = RowsAfterDelete(messages, phone_number)
            /\ analyses' = RowsAfterDelete(analyses, phone_number)
            /\ users' = [users EXCEPT ![phone_number] = <<>>]
            /\ deleted' = <<phone_number>>
       ELSE /\ deleted' = <<>>
            /\ UNCHANGED <<users, messages, analyses>>
    /\ raised' = FALSE
    /\ UNCHANGED <<core_vars, formatted, user_name, response,
                   gemini_available, asked, handled, bot_vars, util_vars>>

\* Users are registered, messages and analyses are stored, and the data of
\* users are deleted, in any order.
NextDelete ==
    \/ \E phone_number \in Phones, name \in RegisteredNames :
           get_or_create_user(phone_number, name)
    \/ \E phone_number \in Phones, message_body \in Bodies,
          message_type \in MessageTypes :
           store_message(phone_number, message_body, message_type)
    \/ \E phone_number \in Phones, original_message \in StoredTexts,
          a \in StoredAnalyses :
           store_analysis(phone_number, original_message, a)
    \/ \E phone_number \in Phones, ok \in BOOLEAN :
           delete_user_data(phone_number, ok)

SpecDelete == Init /\ [][NextDelete]_vars

(***************************************************************************)
(* WhatsAppBot.process_incoming_message and the reply branches of          *)
(* _handle_message.                                                        *)
(***************************************************************************)
DigitsAndPlus == {"0", "1", "2", "3", "4", "5", "6", "7", "8", "9", "+"}

RECURSIVE KeepDigitsAndPlus(_)
\* ''.join(c for c in s if c.isdigit() or c == '+')
KeepDigitsAndPlus(s) ==
    IF s = "" THEN ""
    ELSE (IF Char(s, 1) \in DigitsAndPlus THEN Char(s, 1) ELSE "")
             \o KeepDigitsAndPlus(SubSeq(s, 2, Len(s)))

\* WhatsAppBot._clean_phone_number(phone_number): the prefix 'whatsapp:' is
\* removed, then every character that is not a digit or '+'; the prefix has
\* no such character, so the second step alone gives the result.
_clean_phone_number(phone_number) == KeepDigitsAndPlus(phone_number)

\* WhatsAppBot._get_welcome_message()
_get_welcome_message ==
    "Welcome to your AI Assistant!\n"
        \o "\n"
        \o "I'm here to help you with:\n"
        \o "Health questions and symptom analysis\n"
        \o "General questions and advice\n"
        \o "Tips and guidance on any topic\n"
        \o "\n"
        \o "Ask me about your health concerns\n"
        \o "Ask me general questions (weather, advice, etc.)\n"
        \o "Type 'help' for more options\n"
        \o "\n"
        \o "IMPORTANT: For medical emergencies, call 911 immediately.\n"
        \o "\n"
        \o "How can I help you today?"

\* WhatsAppBot._get_help_message()
_get_help_message ==
    "How I can help you:\n"
        \o "\n"
        \o "1. **Health & Medical Questions**\n"
        \o "   Describe your symptoms for personalized health guidance\n"
        \o "\n"
        \o "2. **General AI Assistant**\n"
        \o "   Ask me anything! I can help with advice, questions, explanations, and more\n"
        \o "\n"
        \o "3. **Health Tips**\n"
        \o "   Type 'tips' for general health advice\n"
        \o "\n"
        \o "4. **Emergencies**\n"
        \o "   For medical emergencies, call 911 immediately\n"
        \o "\n"
        \o "**Example messages:**\n"
        \o "\"I have a headache and feel nauseous\"\n"
        \o "\"What's the weather like today?\"\n"
        \o "\"Tell me a joke\"\n"
        \o "\"How do I cook pasta?\"\n"
        \o "\"Give me some health tips\"\n"
        \o "\n"
        \o "I'm powered by advanced AI and can help with both medical and general questions!"

\* WhatsAppBot._get_emergency_message()
_get_emergency_message ==
    "EMERGENCY RESPONSE \n"
        \o "\n"
        \o "If this is a medical emergency:\n"
        \o "Call 911 immediately\n"
        \o "Go to the nearest emergency room\n"
        \o "\n"
        \o "For urgent but non-emergency care:\n"
        \o "Call your doctor\n"
        \o "Visit an urgent care center\n"
        \o "\n"
        \o "I'm an AI assistant and cannot provide emergency medical care. Please seek immediate professional help for serious medical situations.\n"
        \o "\n"
        \o "Stay safe! "

\* WhatsAppBot._get_health_tips()
WhatsAppBot_get_health_tips ==
    "Daily Health Tips:\n\n" \o EnhancedAI_get_health_tips
        \o "\n\nRemember: Small daily habits make a big difference in your overall health! "
        \o "\n\nNeed help with specific symptoms or have other questions? Just ask me anything!"

\* The reply of the except clause of process_incoming_message.
ErrorReply ==
    "I'm sorry, I encountered an error processing your message. Please try again later."

\* any(word in text for word in words)
AnyIn(words, text) == \E i \in 1..Len(words) : Contains(words[i], text)

\* Fault variant of BranchOf: the emergency words are looked for first.
BranchOf_EmergencyFirst(message_lower) ==
    IF AnyIn(<<"emergency", "911", "urgent">>, message_lower) THEN "emergency"
    ELSE IF AnyIn(<<"hi", "hello", "hey", "start">>, message_lower) THEN "welcome"
    ELSE IF AnyIn(<<"help", "menu", "options">>, message_lower) THEN "help"
    ELSE IF Contains("tips", message_lower) \/ Contains("advice", message_lower)
    THEN "tips"
    ELSE "analysis"

\* The branch WhatsAppBot._handle_message takes, lines 79-96.
BranchOf(message_lower) ==
    IF AnyIn(<<"hi", "hello", "hey", "start">>, message_lower) THEN "welcome"
    ELSE IF AnyIn(<<"help", "menu", "options">>, message_lower) THEN "help"
    ELSE IF Contains("tips", message_lower) \/ Contains("advice", message_lower)
    THEN "tips"
    ELSE IF AnyIn(<<"emergency", "911", "urgent">>, message_lower) THEN "emergency"
    ELSE "analysis"

\* WhatsAppBot._handle_message(phone_number, text): the branch it takes.
_handle_message(text) == BranchOf(strip(lower(text)))

\* What _handle_message returns in a branch other than the analysis.
FixedReply(chosen) ==
    CASE chosen = "welcome" -> _get_welcome_message
      [] chosen = "help" -> _get_help_message
      [] chosen = "tips" -> WhatsAppBot_get_health_tips
      [] chosen = "emergency" -> _get_emergency_message

\* The tables after a store_message(phone_number, message_body,
\* message_type) that the CHECK constraint accepts.
AfterStore(table, rows, phone_number, message_body, message_type) ==
    [users |-> [UsersAfter_get_or_create_user(table, phone_number, <<>>)
                    EXCEPT ![phone_number][1].total_messages = @ + 1],
     messages |-> Append(rows, [phone_number |-> phone_number,
                                message_body |-> message_body,
                                message_type |-> message_type])]

\* A database operation that fails in a call (sqlite3.OperationalError), if
\* any: storing the incoming message, reading the user, or storing the
\* outgoing message.
StorageFaults == {"none", "store_incoming", "get_user_info", "store_outgoing"}

\* str(e) of that exception.
StorageError == "database is locked"

\* Lines 66-69 of process_incoming_message: the reply of _handle_message is
\* stored as outgoing and returned; if storing it fails, the except clause
\* returns ErrorReply.  stored holds the tables after line 60, failures the
\* steps that failed before.
StoreOutgoing(stored, phone_number, handled_reply, failures, fault) ==
    IF fault = "store_outgoing"
    THEN /\ users' = stored.users
         /\ messages' = stored.messages
         /\ bot_reply' = <<ErrorReply>>
         /\ failed' = failures \o <<"store_outgoing">>
    ELSE /\ users' = AfterStore(stored.users, stored.messages, phone_number,
                                handled_reply, "outgoing").users
         /\ messages' = AfterStore(stored.users, stored.messages, phone_number,
                                   handled_reply, "outgoing").messages
         /\ bot_reply' = <<handled_reply>>
         /\ failed' = failures

\* Lines 60-69, once the incoming message is stored (stored holds the
\* tables): _handle_message picks the branch; the analysis branch is
\* _analyze_message, whose store_message(.., 'analysis') the messages table
\* rejects with error, so that its except clause returns the text of the
\* exception.
HandleAndReply(stored, phone_number, text, chosen, fault, error) ==
    /\ branch' = chosen
    /\ deleted' = <<>>
    /\ UNCHANGED analyses
    /\ IF chosen # "analysis"
       THEN /\ StoreOutgoing(stored, phone_number, FixedReply(chosen), <<>>,
                             fault)
            /\ raised' = FALSE
            /\ UNCHANGED <<core_vars, formatted, user_name, response,
                           gemini_available, asked, handled, user_info>>
       ELSE IF fault = "get_user_info"
       THEN /\ StoreOutgoing(stored, phone_number,
                             "Debug Error: " \o StorageError,
                             <<"get_user_info">>, fault)
            /\ raised' = FALSE
            /\ UNCHANGED <<core_vars, formatted, user_name, response,
                           gemini_available, asked, handled, user_info>>
       ELSE /\ user_info' = stored.users[phone_number]
            /\ EnhancedAI_analyze_message(text,
                                          NameOf(stored.users[phone_number]))
            /\ StoreOutgoing(stored, phone_number, "Debug Error: " \o error,
                             <<"store_analysis">>, fault)

\* The from_number arguments: the numbers as Twilio sends them.
FromNumbers == {"whatsapp:+1 (555) 0001", "whatsapp:+15550002"}

\* The message_body arguments.
ProcessTexts ==
    {"I have fever. ", "tell me a joke ", "Chest Pain ",
     "this is an emergency, chest pain", "urgent: 911", "I need help",
     "any advice?", "  Tips  ", "hello"}

\* WhatsAppBot.process_incoming_message(from_number, message_body); fault
\* is the database operation that fails, error the text of the
\* IntegrityError of the messages table.
process_incoming_message(from_number, message_body, fault, error) ==
    /\ bot_message' = message_body
    /\ UNCHANGED util_vars
    /\ IF fault = "store_incoming"
       THEN /\ bot_reply' = <<ErrorReply>>
            /\ branch' = ""
            /\ failed' = <<"store_incoming">>
            /\ raised' = FALSE
            /\ UNCHANGED <<core_vars, formatted, user_name, response,
                           gemini_available, asked, handled, db_vars,
                           user_info>>
       ELSE HandleAndReply(AfterStore(users, messages,
                                      _clean_phone_number(from_number),
                                      message_body, "incoming"),
                           _clean_phone_number(from_number), message_body,
                           _handle_message(message_body), fault, error)

\* A bot is constructed with or without Gemini, users are registered, and
\* one message comes in.
NextProcess ==
    \/ /\ bot_reply = <<>>
       /\ \E available \in BOOLEAN : EnhancedAI_init(available)
    \/ /\ bot_reply = <<>>
       /\ \E phone_number \in Phones, name \in RegisteredNames :
              get_or_create_user(phone_number, name)
    \/ /\ bot_reply = <<>>
       /\ \E from_number \in FromNumbers, message_body \in ProcessTexts,
             fault \in StorageFaults, error \in IntegrityErrors :
              process_incoming_message(from_number, message_body, fault, error)

SpecProcess == Init /\ [][NextProcess]_vars

(***************************************************************************)
(* utils.RateLimiter.  Timestamps are whole numbers of seconds.            *)
(***************************************************************************)
\* The latest time of the model's clock.
MaxTime == 4

\* RateLimiter.__init__(max_calls, time_window): nothing is recorded.
RateLimiter_init(calls_allowed, window) ==
    /\ max_calls' = calls_allowed
    /\ time_window' = window
    /\ rate_calls' = [identifier \in Identifiers |-> <<>>]
    /\ granted' = [identifier \in Identifiers |-> <<>>]
    /\ last_call' = <<>>
    /\ UNCHANGED <<core_vars, reply_vars, db_vars, bot_vars, clock,
                   chunk_input, chunks>>

\* Lines 299-303: the recorded calls of the identifier that are younger than
\* time_window at time now.
CleanOld(recorded, now) ==
    SelectSeq(recorded, LAMBDA call_time : now - call_time < time_window)

\* Fault variant of is_allowed: a call is allowed while the recorded calls
\* are at most max_calls.
is_allowed_AtLimit(identifier, now) ==
    /\ now >= clock
    /\ now <= MaxTime
    /\ clock' = now
    /\ IF Len(CleanOld(rate_calls[identifier], now)) <= max_calls
       THEN /\ rate_calls' =
                   [rate_calls EXCEPT ![identifier] =
                        Append(CleanOld(rate_calls[identifier], now), now)]
            /\ granted' = [granted EXCEPT ![identifier] = Append(@, now)]
            /\ last_call' = <<[identifier |-> identifier, now |-> now,
                               result |-> TRUE]>>
       ELSE /\ rate_calls' =
                   [rate_calls EXCEPT ![identifier] =
                        CleanOld(rate_calls[identifier], now)]
            /\ last_call' = <<[identifier |-> identifier, now |-> now,
                               result |-> FALSE]>>
            /\ UNCHANGED granted
    /\ UNCHANGED <<core_vars, reply_vars, db_vars, bot_vars, max_calls,
                   time_window, chunk_input, chunks>>

\* RateLimiter.is_allowed(identifier), called at time now of a clock that
\* does not go back.
is_allowed(identifier, now) ==
    /\ now >= clock
    /\ now <= MaxTime
    /\ clock' = now
    /\ IF Len(CleanOld(rate_calls[identifier], now)) < max_calls
       THEN /\ rate_calls' =
                   [rate_calls EXCEPT ![identifier] =
                        Append(CleanOld(rate_calls[identifier], now), now)]
            /\ granted' = [granted EXCEPT ![identifier] = Append(@, now)]
            /\ last_call' = <<[identifier |-> identifier, now |-> now,
                               result |-> TRUE]>>
       ELSE /\ rate_calls' =
                   [rate_calls EXCEPT ![identifier] =
                        CleanOld(rate_calls[identifier], now)]
            /\ last_call' = <<[identifier |-> identifier, now |-> now,
                               result |-> FALSE]>>
            /\ UNCHANGED granted
    /\ UNCHANGED <<core_vars, reply_vars, db_vars, bot_vars, max_calls,
                   time_window, chunk_input, chunks>>

\* A limiter is constructed and asked, for any identifiers at any times.
NextLimiter ==
    \/ /\ last_call = <<>>
       /\ \E calls_allowed \in LimiterMaxCalls, window \in LimiterWindows :
              RateLimiter_init(calls_allowed, window)
    \/ \E identifier \in Identifiers, now \in 0..MaxTime :
           is_allowed(identifier, now)

SpecLimiter == Init /\ [][NextLimiter]_vars

(***************************************************************************)
(* utils.chunk_message.                                                    *)
(***************************************************************************)
\* The first index at which sep occurs in s; 0 if it does not occur.
Find(s, sep) ==
    IF Contains(sep, s)
    THEN SetMin({i \in 1..(Len(s) - Len(sep) + 1) :
                    SubSeq(s, i, i + Len(sep) - 1) = sep})
    ELSE 0

RECURSIVE Split(_, _)
\* str.split(sep)
Split(s, sep) ==
    IF Find(s, sep) = 0 THEN <<s>>
    ELSE <<SubSeq(s, 1, Find(s, sep) - 1)>>
             \o Split(SubSeq(s, Find(s, sep) + Len(sep), Len(s)), sep)

\* Lines 161-169, one sentence: out holds chunks and current_chunk.
AddSentence(out, sentence, max_length) ==
    IF Len(out.current_chunk \o sentence) <= max_length
    THEN [out EXCEPT !.current_chunk =
              IF @ # "" THEN @ \o ". " \o sentence ELSE sentence]
    ELSE [chunks |-> IF out.current_chunk # ""
                     THEN Append(out.chunks, out.current_chunk)
                     ELSE out.chunks,
          current_chunk |-> sentence]

RECURSIVE AddSentences(_, _, _)
\* The loop of lines 160-169.
AddSentences(out, sentences, max_length) ==
    IF sentences = <<>> THEN out
    ELSE AddSentences(AddSentence(out, Head(sentences), max_length),
                      Tail(sentences), max_length)

\* Lines 147-169, one paragraph.
AddParagraph(out, paragraph, max_length) ==
    IF Len(out.current_chunk \o paragraph) <= max_length
    THEN [out EXCEPT !.current_chunk =
              IF @ # "" THEN @ \o "\n\n" \o paragraph ELSE paragraph]
    ELSE IF out.current_chunk # ""
    THEN [chunks |-> Append(out.chunks, out.current_chunk),
          current_chunk |-> paragraph]
    ELSE AddSentences(out, Split(paragraph, ". "), max_length)

RECURSIVE AddParagraphs(_, _, _)
\* The loop of lines 146-169.
AddParagraphs(out, paragraphs, max_length) ==
    IF paragraphs = <<>> THEN out
    ELSE AddParagraphs(AddParagraph(out, Head(paragraphs), max_length),
                       Tail(paragraphs), max_length)

\* Lines 171-174: the last chunk is added if it is not empty.
Finished(out) ==
    IF out.current_chunk # "" THEN Append(out.chunks, out.current_chunk)
    ELSE out.chunks

\* chunk_message(text, max_length)
chunk_message(text, max_length) ==
    IF Len(text) <= max_length THEN <<text>>
    ELSE Finished(AddParagraphs([chunks |-> <<>>, current_chunk |-> ""],
                                Split(text, "\n\n"), max_length))

\* The number of pieces of a message of the model.
MaxPieces == 4

\* The pieces: words, the sentence separator and the paragraph separator.
Pieces == {"a", "bb", ". ", "\n\n"}

RECURSIVE PiecesOf(_)
PiecesOf(n) ==
    IF n = 0 THEN {""}
    ELSE {m \o p : m \in PiecesOf(n - 1), p \in Pieces \cup {""}}

\* The max_length arguments.
ChunkLengths == {1, 3, 4, 6}

\* chunk_message is called.
call_chunk_message(text, max_length) ==
    /\ chunk_input' = <<[message |-> text, max_length |-> max_length]>>
    /\ chunks' = chunk_message(text, max_length)
    /\ UNCHANGED <<core_vars, reply_vars, db_vars, bot_vars, max_calls,
                   time_window, rate_calls, clock, granted, last_call>>

\* One call of chunk_message.
NextChunk ==
    /\ chunk_input = <<>>
    /\ \E text \in PiecesOf(MaxPieces), max_length \in ChunkLengths :
           call_chunk_message(text, max_length)

SpecChunk == Init /\ [][NextChunk]_vars

(***************************************************************************)
(* Properties.                                                             *)
(***************************************************************************)
\* analyze_message has returned at least once.
Called == calls # "none"

\* The last message, as analyze_message normalises it.
Normalized == Normalize(message)

\* The text contains an emergency phrase once lowered and trimmed.
HasEmergencyPhrase(text) ==
    \E i \in 1..Len(EmergencyKeywords) :
        Contains(EmergencyKeywords[i], Normalize(text))

NoDuplicates(seq) ==
    \A i, j \in 1..Len(seq) : i # j => seq[i] # seq[j]

SeverityRank(severity) ==
    CASE severity = "mild" -> 1
      [] severity = "moderate" -> 2
      [] severity = "severe" -> 3
      [] OTHER -> 0

\* C1: for every input that contains an emergency phrase (after lowering and
\* trimming) the returned analysis has is_emergency true, urgency
\* 'emergency', confidence 0.9 and symptoms ['emergency situation detected'].
C1_EmergencyFlagged ==
    (Called /\ HasEmergencyPhrase(message)) =>
        /\ analysis.is_emergency = TRUE
        /\ analysis.urgency = "emergency"
        /\ analysis.confidence = 90
        /\ analysis.symptoms = <<"emergency situation detected">>

\* C2: the emergency check short-circuits the analysis: every input that
\* contains an emergency phrase gets the same fixed record (severity
\* 'severe', potential_conditions ['medical emergency'], the fixed symptoms,
\* urgency, confidence and recommendations), whatever symptom keywords,
\* severity indicators or pattern phrases the message also contains.
C2_EmergencyShortCircuit ==
    (Called /\ HasEmergencyPhrase(message)) =>
        /\ analysis.severity = "severe"
        /\ analysis.potential_conditions = <<"medical emergency">>
        /\ analysis.symptoms = <<"emergency situation detected">>
        /\ analysis.urgency = "emergency"
        /\ analysis.confidence = 90
        /\ analysis.recommendations =
               <<"EMERGENCY: Call emergency services immediately (911)",
                 "If possible, go to the nearest emergency room",
                 "Do not drive yourself if experiencing severe symptoms",
                 "Stay calm and follow emergency operator instructions">>

\* An emergency message that also holds a symptom keyword, a severity
\* indicator and a pattern phrase got the fixed record.
C2_EmergencyWithSymptoms ==
    /\ Called
    /\ HasEmergencyPhrase(message)
    /\ KeywordPass(Normalized) # <<>>
    /\ IndicatorScore(SeverityIndicators, Normalized) > 0
    /\ findall(symptom_patterns[1], Normalized) # <<>>
    /\ analysis.symptoms = <<"emergency situation detected">>

\* C3: the symptoms list of a returned analysis has at most 10 entries.
C3_AtMostTenSymptoms == Len(analysis.symptoms) <= 10

\* The two passes found more than 10 symptoms and 10 were returned.
C3_Truncated ==
    /\ Called
    /\ ~HasEmergencyPhrase(message)
    /\ Len(PatternPass(KeywordPass(Normalized), Normalized, 1)) > 10
    /\ Len(analysis.symptoms) = 10

\* C4: the list _extract_symptoms returns holds no string twice: the keywords
\* of all categories are distinct, and a pattern match is added only if it is
\* not yet in the list.
C4_NoDuplicateSymptoms ==
    /\ NoDuplicates(AllKeywords)
    /\ (Called /\ ~HasEmergencyPhrase(message)) => NoDuplicates(analysis.symptoms)

\* A pattern captured a string the keyword pass had found, and the list holds
\* it once.
C4_CaptureAlreadyFound ==
    /\ Called
    /\ ~HasEmergencyPhrase(message)
    /\ \E p \in 1..Len(symptom_patterns) :
           \E i \in 1..Len(findall(symptom_patterns[p], Normalized)) :
               InSeq(strip(findall(symptom_patterns[p], Normalized)[i]),
                     KeywordPass(Normalized))
    /\ NoDuplicates(analysis.symptoms)

\* C5: for an input without emergency phrase the urgency is given by the
\* severity alone, mild -> low, moderate -> medium, severe -> high (never
\* 'emergency'), whatever symptoms were extracted, and is_emergency is false.
C5_UrgencyFromSeverity ==
    (Called /\ ~HasEmergencyPhrase(message)) =>
        /\ analysis.severity \in {"mild", "moderate", "severe"}
        /\ analysis.severity = "mild" => analysis.urgency = "low"
        /\ analysis.severity = "moderate" => analysis.urgency = "medium"
        /\ analysis.severity = "severe" => analysis.urgency = "high"
        /\ analysis.is_emergency = FALSE

\* A moderate analysis with three symptoms or more has urgency medium.
C5_ModerateManySymptoms ==
    /\ Called
    /\ ~HasEmergencyPhrase(message)
    /\ analysis.severity = "moderate"
    /\ Len(analysis.symptoms) >= 3
    /\ analysis.urgency = "medium"

\* The scores the threshold function is compared on.
MaxScore == 12

ScoreGivesSeverity(score, severity) ==
    /\ score <= 3 => severity = "mild"
    /\ (4 <= score /\ score <= 7) => severity = "moderate"
    /\ score >= 8 => severity = "severe"

\* C6: severity is a monotone threshold function of the accumulated score
\* (indicator weights plus number of extracted symptoms): 0..3 is mild, 4..7
\* moderate, 8 or more severe, and a higher score never gives a lower
\* severity.
C6_SeverityThresholds ==
    /\ (Called /\ ~HasEmergencyPhrase(message)) =>
           ScoreGivesSeverity(severity_score(Normalized, analysis.symptoms),
                              analysis.severity)
    /\ \A a, b \in 0..MaxScore :
           a <= b => SeverityRank(SeverityOfScore(a)) <= SeverityRank(SeverityOfScore(b))

\* A message whose score is exactly 8, the lower boundary of severe.
C6_ScoreAtBoundary ==
    /\ Called
    /\ ~HasEmergencyPhrase(message)
    /\ severity_score(Normalized, analysis.symptoms) = 8
    /\ analysis.severity = "severe"

\* min(0.6 + min(0.1 * symptom_count, 0.3) + min(0.01 * words, 0.1), 0.95), in
\* hundredths.
ConfidenceFormula(symptom_count, words) ==
    Min(60 + Min(10 * symptom_count, 30) + Min(words, 10), 95)

ConfidenceAsStated ==
    (Called /\ ~HasEmergencyPhrase(message)) =>
        /\ 60 <= analysis.confidence
        /\ analysis.confidence <= 95
        /\ analysis.confidence =
               ConfidenceFormula(Len(analysis.symptoms), word_count(Normalized))

\* Between two successive analyses the confidence does not go down, unless
\* the symptom count or the word count went down or one of the two messages
\* is an emergency (the cases are ordered by the cost of deciding them).
ConfidenceMonotone ==
    \/ analysis'.confidence >= analysis.confidence
    \/ ~Called
    \/ Len(analysis'.symptoms) < Len(analysis.symptoms)
    \/ word_count(Normalize(message')) < word_count(Normalized)
    \/ HasEmergencyPhrase(message)
    \/ HasEmergencyPhrase(message')

\* C7: for every non-emergency analysis the confidence lies in [0.6, 0.95],
\* equals min(0.6 + min(0.1*symptom_count, 0.3) + min(0.01*word_count, 0.1),
\* 0.95), and does not decrease when the symptom count or the word count of
\* the message increases.
C7_Confidence == []ConfidenceAsStated /\ [][ConfidenceMonotone]_vars

\* The cap is reached: three symptoms or more and ten words or more would sum
\* to 1.0, and the confidence is 0.95.
C7_Capped ==
    /\ Called
    /\ ~HasEmergencyPhrase(message)
    /\ Len(analysis.symptoms) >= 3
    /\ word_count(Normalized) >= 10
    /\ analysis.confidence = 95

\* C8: empty input and input of whitespace only are analysed without fault:
\* symptoms [], severity 'mild', urgency 'low', confidence 0.6.
C8_BlankInput ==
    (Called /\ \A i \in 1..Len(message) : IsSpace(Char(message, i))) =>
        /\ analysis.symptoms = <<>>
        /\ analysis.severity = "mild"
        /\ analysis.urgency = "low"
        /\ analysis.confidence = 60

\* A message of blanks, tabs and newlines was analysed.
C8_WhitespaceOnly ==
    /\ Called
    /\ Len(message) > 1
    /\ \A i \in 1..Len(message) : IsSpace(Char(message, i))
    /\ \E i \in 1..Len(message) : Char(message, i) = "\n"
    /\ analysis.symptoms = <<>>
    /\ analysis.confidence = 60

\* The second of two calls with one text returns what the first returned.
SameResult ==
    (Called /\ message' = message) =>
        /\ analysis'.symptoms = analysis.symptoms
        /\ analysis'.severity = analysis.severity
        /\ analysis'.urgency = analysis.urgency
        /\ analysis'.confidence = analysis.confidence
        /\ analysis'.potential_conditions = analysis.potential_conditions
        /\ Range(analysis'.recommendations) = Range(analysis.recommendations)

\* C9: two calls of analyze_message with the same text, on one instance or on
\* two separately constructed ones, return identical symptoms, severity,
\* urgency, confidence and potential_conditions, and recommendations that are
\* equal as sets.
C9_Deterministic == [][SameResult]_vars

\* A message with symptoms was analysed again by an instance constructed
\* after the first call, in a process with another hash seed.
C9_RepeatedOnNewInstance ==
    /\ calls = "repeated"
    /\ hashseed = 6
    /\ ~HasEmergencyPhrase(message)
    /\ Len(analysis.symptoms) >= 3
    /\ analysis.recommendations # SelectSeq(AdviceStrings,
                                    LAMBDA x : x \in Range(analysis.recommendations))

\* C10: for "I have a severe headache and fever" the symptoms include
\* 'headache', 'fever' and the captured 'a severe headache and fever', the
\* severity is at least moderate, and potential_conditions does not include
\* 'Flu'.
C10_HeadacheAndFever ==
    (Called /\ message = "I have a severe headache and fever") =>
        /\ InSeq("headache", analysis.symptoms)
        /\ InSeq("fever", analysis.symptoms)
        /\ InSeq("a severe headache and fever", analysis.symptoms)
        /\ analysis.severity \in {"moderate", "severe"}
        /\ ~InSeq("Flu", analysis.potential_conditions)

\* The message holds no keyword of any symptom category.
NoKeyword == \A k \in 1..Len(AllKeywords) : ~Contains(AllKeywords[k], Normalized)

LongCaptures(matches) ==
    SelectSeq([i \in 1..Len(matches) |-> strip(matches[i])],
              LAMBDA s : Len(s) > 2)

\* Everything the two passes come upon, in the order they come upon it: the
\* keywords found in the message in category and keyword order, then the
\* captures pattern by pattern.  A string can occur more than once.
Discoveries ==
    SelectSeq(Flatten(<<_load_symptom_keywords[1].keywords,
                        _load_symptom_keywords[2].keywords,
                        _load_symptom_keywords[3].keywords,
                        _load_symptom_keywords[4].keywords,
                        _load_symptom_keywords[5].keywords>>),
              LAMBDA k : Contains(k, Normalized))
    \o Flatten([p \in 1..Len(symptom_patterns) |->
                   LongCaptures(findall(symptom_patterns[p], Normalized))])

\* Where x is first come upon.
FirstFound(x, found) == SetMin({i \in 1..Len(found) : found[i] = x})

\* list is what was found, each string once, by first discovery, cut after
\* the first 10.
FirstTenOf(list, found) ==
    /\ Len(list) <= 10
    /\ \A i \in 1..Len(list) : InSeq(list[i], found)
    /\ \A i, j \in 1..Len(list) :
           i < j => FirstFound(list[i], found) < FirstFound(list[j], found)
    /\ \A k \in 1..Len(found) :
           \/ InSeq(found[k], list)
           \/ Len(list) = 10 /\ k > FirstFound(list[10], found)

\* C18: the symptoms are in discovery order: the keyword-pass entries first,
\* in category order and keyword order within a category, then the
\* pattern-pass entries in pattern order, each kept only if its trimmed
\* length exceeds 2 and it is not yet in the list; truncation keeps exactly
\* the first 10 entries of that order.
C18_DiscoveryOrder ==
    (Called /\ ~HasEmergencyPhrase(message)) =>
        FirstTenOf(analysis.symptoms, Discoveries)

\* A keyword, then the capture of the first pattern, then the capture of the
\* fourth, which stands earlier in the message.
C18_PatternOrderNotTextOrder ==
    /\ Called
    /\ message = "my arm hurts I have pressure and tension. "
    /\ analysis.symptoms = <<"hurt", "pressure and tension", "arm">>

\* The (category, level, indicator) triples of the knowledge base at one
\* level whose phrase occurs in the message.
TriplesFound(level) ==
    {tr \in (1..5) \X (1..3) \X (1..4) :
        /\ _load_symptom_keywords[tr[1]].severity_indicators[tr[2]].level = level
        /\ tr[3] <= Len(_load_symptom_keywords[tr[1]].severity_indicators[tr[2]].indicators)
        /\ Contains(_load_symptom_keywords[tr[1]].severity_indicators[tr[2]].indicators[tr[3]],
                    Normalized)}

\* Weight 1 per mild triple, 3 per moderate, 5 per severe, plus one per
\* extracted symptom.
StatedScore ==
    Cardinality(TriplesFound("mild")) + 3 * Cardinality(TriplesFound("moderate"))
        + 5 * Cardinality(TriplesFound("severe")) + Len(analysis.symptoms)

\* C19: the severity score is the sum of the level weights (mild 1, moderate
\* 3, severe 5) over every (category, level, indicator) triple whose phrase
\* occurs in the message, plus the number of extracted symptoms; every
\* matching indicator counts, also one inside another matching indicator,
\* without early exit or cap per category.  The severity returned is the one
\* of that score.
C19_ScoreIsSumOfWeights ==
    (Called /\ ~HasEmergencyPhrase(message)) =>
        /\ severity_score(Normalized, analysis.symptoms) = StatedScore
        /\ ScoreGivesSeverity(StatedScore, analysis.severity)

\* 'severe', 'fever', 'headache' and 'severe headache' all count (5 + 3 + 3
\* + 5), 'headache' inside 'severe headache' too, and four symptoms are added.
C19_NestedIndicators ==
    /\ Called
    /\ message = "I have a severe headache and fever"
    /\ Cardinality(TriplesFound("severe")) = 2
    /\ Cardinality(TriplesFound("moderate")) = 2
    /\ severity_score(Normalized, analysis.symptoms) = 20
    /\ analysis.severity = "severe"

\* The defining phrases of a condition that occur in some extracted symptom.
PhrasesMatched(condition) ==
    {d \in 1..Len(condition.symptoms) :
        \E s \in 1..Len(analysis.symptoms) :
            Contains(lower(condition.symptoms[d]), lower(analysis.symptoms[s]))}

\* The conditions with at least 2 defining phrases matched, in knowledge-base
\* order.
ConditionsWithTwoPhrases ==
    SelectSeq(_load_medical_knowledge.common_conditions,
              LAMBDA condition : Cardinality(PhrasesMatched(condition)) >= 2)

\* C20: a condition is in potential_conditions exactly when at least 2 of
\* its defining phrases each occur in some extracted symptom (a phrase that
\* occurs in several symptoms counts once); the conditions are in
\* knowledge-base order, each at most once, named with underscores replaced
\* by spaces and title-cased.
C20_TwoDefiningPhrases ==
    (Called /\ ~HasEmergencyPhrase(message)) =>
        analysis.potential_conditions =
            [i \in 1..Len(ConditionsWithTwoPhrases) |->
                title(replace(ConditionsWithTwoPhrases[i].name, "_", " "))]

\* format_response has been called.
FormatCalled == formatted # NoAnalysis

\* C16: format_response has two paths.  For an emergency analysis (urgency
\* 'emergency', the flag the code tests) it returns the fixed emergency
\* notice, the same string on every call, whatever the other fields of the
\* analysis and the user name are; every other analysis takes the normal
\* path, which opens with the greeting.
C16_EmergencyNoticeFixed ==
    FormatCalled =>
        /\ formatted.urgency = "emergency" =>
               response = _format_emergency_response
        /\ formatted.urgency # "emergency" =>
               /\ response # _format_emergency_response
               /\ SubSeq(response, 1, 3) = "Hi "

\* The notice was returned for an analysis that analyze_message made on the
\* emergency path, for a named user.
C16_NoticeForEmergencyMessage ==
    /\ FormatCalled
    /\ HasEmergencyPhrase(message)
    /\ formatted = analysis
    /\ user_name = <<"Asha">>
    /\ response = _format_emergency_response

\* The sections of the normal path as stated, in order.
StatedSections ==
    <<"Hi " \o PyFormat(user_name) \o "! I've analyzed your symptoms.">>
    \o (IF Len(formatted.symptoms) = 0 THEN <<>>
        ELSE <<"Symptoms identified: "
                   \o Join([i \in 1..Min(5, Len(formatted.symptoms)) |->
                               formatted.symptoms[i]], ", ")>>)
    \o <<"Severity: " \o title(formatted.severity)>>
    \o (IF Len(formatted.potential_conditions) = 0 THEN <<>>
        ELSE <<"This might be related to: "
                   \o Join(formatted.potential_conditions, ", ")>>)
    \o <<"Recommendations:">>
    \o [i \in 1..Min(6, Len(formatted.recommendations)) |->
           ToString(i) \o ". " \o formatted.recommendations[i]]
    \o <<"Confidence: " \o ToString(formatted.confidence) \o "%", Disclaimer>>

\* C17: on the normal path the response is the sections greeting, symptoms
\* line, severity line, conditions line, numbered recommendations,
\* confidence line and disclaimer, in this order, joined by a blank line.  The
\* symptoms line lists the first min(5, n) symptoms and is left out when
\* there are none, the conditions line is left out when there are no
\* conditions, the recommendations are the first min(6, m), numbered from 1,
\* and no section is empty (no two separators in a row).
C17_SectionsInOrder ==
    (FormatCalled /\ formatted.urgency # "emergency") =>
        /\ response = Join(StatedSections, "\n\n")
        /\ \A i \in 1..Len(StatedSections) : StatedSections[i] # ""
        /\ ~Contains("\n\n\n\n", response)

\* More than 5 symptoms and more than 6 recommendations were cut, and the
\* conditions line was left out.
C17_CutAndOmitted ==
    /\ FormatCalled
    /\ formatted.urgency # "emergency"
    /\ Len(formatted.symptoms) > 5
    /\ Len(formatted.recommendations) > 6
    /\ formatted.potential_conditions = <<>>
    /\ ~Contains("This might be related to", response)
    /\ Contains("\n\n6. ", response)
    /\ ~Contains("\n\n7. ", response)

\* EnhancedAI.analyze_message has been called.
Asked == handled # <<>>

\* The message holds a health keyword or a health phrase, in any case.
HoldsHealthWord(text) ==
    \/ \E k \in 1..Len(health_keywords) : Contains(health_keywords[k], lower(text))
    \/ \E k \in 1..Len(health_patterns) : Contains(health_patterns[k], lower(text))

\* C12: when the general-question delegate fails or is not available,
\* EnhancedAI.analyze_message on a message that is not health-related
\* returns the fixed general fallback message and does not raise.
C12_GeneralFallback ==
    (Asked /\ ~HoldsHealthWord(asked)) =>
        /\ ~raised
        /\ handled \in {<<"general">>, <<"general", "gemini">>,
                        <<"general", "gemini", "error">>}
        /\ (~gemini_available \/ InSeq("error", handled)) =>
               response = _get_fallback_general_response(user_name)

\* The delegate was called and failed; the fallback was returned.
C12_DelegateFailed ==
    /\ Asked
    /\ gemini_available
    /\ handled = <<"general", "gemini", "error">>
    /\ ~raised
    /\ response = _get_fallback_general_response(user_name)

\* C13: EnhancedAI.analyze_message runs the triage core exactly when the
\* message is health-related (it holds a health keyword or a health phrase,
\* in any case); the general-question handler and its delegate run only when
\* it is not, and never both handlers for one message.
C13_RoutedByHealthCheck ==
    Asked =>
        /\ HoldsHealthWord(asked) =>
               /\ handled \in {<<"health">>, <<"health", "error">>}
               /\ handled = <<"health">> =>
                      /\ calls = "analyzed"
                      /\ message = asked
                      /\ formatted = analysis
        /\ ~HoldsHealthWord(asked) =>
               /\ handled[1] = "general"
               /\ ~InSeq("health", handled)
               /\ calls = "none"
               /\ formatted = NoAnalysis

\* A message without health keyword, health-related by the phrase 'i have',
\* went to the triage core.
C13_HealthByPhrase ==
    /\ Asked
    /\ asked = "I have pressure and tension. "
    /\ \A k \in 1..Len(health_keywords) : ~Contains(health_keywords[k], lower(asked))
    /\ handled = <<"health">>
    /\ analysis.symptoms = <<"pressure and tension">>

\* C14: a fault raised inside the triage pipeline (by analyze_message or by
\* format_response) is caught by EnhancedAI._handle_health_question, which
\* returns the fixed apologetic health fallback text and does not raise.
C14_PipelineFaultCaught ==
    (Asked /\ HoldsHealthWord(asked)) =>
        /\ ~raised
        /\ handled # <<"health">> =>
               /\ handled = <<"health", "error">>
               /\ response = _get_fallback_health_response(user_name)

\* format_response raised after analyze_message had returned; the fallback
\* was returned.
C14_FormatFaultCaught ==
    /\ Asked
    /\ handled = <<"health", "error">>
    /\ calls = "analyzed"
    /\ message = asked
    /\ ~raised
    /\ response = _get_fallback_health_response(user_name)

\* WhatsAppBot._analyze_message has returned.
BotAnalyzed == bot_reply # <<>>

\* C15: when the user's name is unknown or absent (no row, or a row whose
\* name is NULL, as store_message creates it), the name
\* WhatsAppBot._analyze_message passes to EnhancedAI.analyze_message, and so
\* to format_response, is 'there'.
C15_AbsentNameIsThere ==
    (BotAnalyzed /\ (user_info = <<>> \/ user_info[1].name = <<>>)) =>
        user_name = <<"there">>

\* The three advice strings of a severity tier.
TierAdvice(severity) ==
    IF severity = "severe" THEN SevereAdvice
    ELSE IF severity = "moderate" THEN ModerateAdvice
    ELSE MildAdvice

\* Some extracted symptom contains the word.
SomeSymptomHas(word) ==
    \E s \in 1..Len(analysis.symptoms) : Contains(word, analysis.symptoms[s])

\* C21: for every non-emergency analysis, recommendations holds the 3 advice
\* strings of the computed severity tier and the 4 entries of the general
\* advice, holds the fever, pain or cough advice only if some extracted
\* symptom contains 'fever', 'pain' or 'cough', and holds no string twice.
C21_RecommendationContent ==
    (Called /\ analysis.urgency # "emergency") =>
        /\ Range(TierAdvice(analysis.severity))
               \subseteq Range(analysis.recommendations)
        /\ Cardinality(Range(TierAdvice(analysis.severity))) = 3
        /\ Range(_load_medical_knowledge.general_advice)
               \subseteq Range(analysis.recommendations)
        /\ Cardinality(Range(_load_medical_knowledge.general_advice)) = 4
        /\ InSeq(FeverAdvice, analysis.recommendations)
               => SomeSymptomHas("fever")
        /\ InSeq(PainAdvice, analysis.recommendations)
               => SomeSymptomHas("pain")
        /\ InSeq(CoughAdvice, analysis.recommendations)
               => SomeSymptomHas("cough")
        /\ NoDuplicates(analysis.recommendations)

\* Two extracted symptoms each brought the fever advice, and it is listed
\* once.
C21_AdviceForTwoSymptoms ==
    /\ Called
    /\ analysis.urgency # "emergency"
    /\ Cardinality({s \in 1..Len(analysis.symptoms) :
                       SymptomAdvice(analysis.symptoms[s]) = <<FeverAdvice>>}) >= 2
    /\ Cardinality({i \in 1..Len(analysis.recommendations) :
                       analysis.recommendations[i] = FeverAdvice}) = 1

\* C22: the knowledge base is read-only after initialization: no sequence of
\* analyze_message, format_response and get_health_tips calls changes
\* symptom_keywords, medical_knowledge (its general_advice list included) or
\* emergency_keywords, so the result for a message is the one a new instance
\* gives, whatever was analysed before.
C22_KnowledgeBaseReadOnly ==
    /\ symptom_keywords = _load_symptom_keywords
    /\ medical_knowledge = _load_medical_knowledge
    /\ Len(medical_knowledge.general_advice) = 4
    /\ emergency_keywords = EmergencyKeywords
    /\ Called => analysis = HealthAI_analyze_message(message)

\* A message was analysed after another analysis had been formatted and the
\* tips had been asked for.
C22_AnalysedAfterOtherCalls ==
    /\ Called
    /\ formatted # NoAnalysis
    /\ formatted # analysis
    /\ response = EnhancedAI_get_health_tips
    /\ analysis.urgency # "emergency"
    /\ Len(analysis.recommendations) >= 7

\* C24: every message that contains a phrase of the triage emergency list is
\* health-related for is_health_related, so EnhancedAI.analyze_message
\* never routes it to the general-question path and, when the pipeline does
\* not fail, answers it with the emergency notice.
C24_EmergencyPassesGate ==
    (Asked /\ HasEmergencyPhrase(asked)) =>
        /\ is_health_related(asked)
        /\ handled[1] = "health"
        /\ handled = <<"health">> =>
               response = _format_emergency_response
                              \o (IF gemini_available THEN HealthNote ELSE "")

\* process_incoming_message has returned.
Processed == bot_reply # <<>> /\ bot_message # ""

\* C23: for a message that reaches the default analysis branch of
\* _handle_message and for which EnhancedAI.analyze_message returns a
\* response, process_incoming_message returns exactly that response (when
\* the outgoing message can be stored).
C23_ReplyIsTheAnalysis ==
    (/\ Processed
     /\ branch = "analysis"
     /\ handled # <<>>
     /\ ~raised
     /\ ~InSeq("store_outgoing", failed)) =>
        bot_reply = <<response>>

\* The text of _handle_message, lowered and trimmed, holds one of the words.
HoldsAny(words) == AnyIn(words, strip(lower(bot_message)))

Greetings == <<"hi", "hello", "hey", "start">>
HelpWords == <<"help", "menu", "options">>
TipsWords == <<"tips", "advice">>
EmergencyWords == <<"emergency", "911", "urgent">>

\* C25: _handle_message takes exactly one reply branch, the first that
\* matches in the order greeting, help word, tips or advice, emergency word,
\* analysis; a greeting or help substring anywhere wins over an emergency
\* word or emergency phrase, and the analysis runs only when none of the
\* four checks matches.
C25_FirstMatchingBranch ==
    (Processed /\ branch # "") =>
        /\ branch = "welcome" <=> HoldsAny(Greetings)
        /\ branch = "help" <=> (~HoldsAny(Greetings) /\ HoldsAny(HelpWords))
        /\ branch = "tips" <=>
               /\ ~HoldsAny(Greetings) /\ ~HoldsAny(HelpWords)
               /\ HoldsAny(TipsWords)
        /\ branch = "emergency" <=>
               /\ ~HoldsAny(Greetings) /\ ~HoldsAny(HelpWords)
               /\ ~HoldsAny(TipsWords) /\ HoldsAny(EmergencyWords)
        /\ branch = "analysis" <=>
               /\ ~HoldsAny(Greetings) /\ ~HoldsAny(HelpWords)
               /\ ~HoldsAny(TipsWords) /\ ~HoldsAny(EmergencyWords)
        /\ (handled # <<>> \/ calls # "none") => branch = "analysis"
        /\ (branch # "analysis" /\ failed = <<>>) =>
               bot_reply = <<CASE branch = "welcome" -> _get_welcome_message
                               [] branch = "help" -> _get_help_message
                               [] branch = "tips" -> WhatsAppBot_get_health_tips
                               [] branch = "emergency" -> _get_emergency_message>>

\* A message with an emergency word and an emergency phrase got the welcome
\* text, for the 'hi' inside 'this'; nothing was analysed.
C25_GreetingInsideWord ==
    /\ Processed
    /\ bot_message = "this is an emergency, chest pain"
    /\ HasEmergencyPhrase(bot_message)
    /\ branch = "welcome"
    /\ bot_reply = <<_get_welcome_message>>
    /\ calls = "none"
    /\ handled = <<>>

\* The texts of the exceptions of the model.
ExceptionTexts == IntegrityErrors \cup {StorageError}

\* C26: process_incoming_message never raises, and whenever a step fails
\* (storing the incoming message, reading the user, the analysis, storing
\* the analysis record or the outgoing message) the reply is a fixed
\* fallback string that contains no exception text.
C26_FixedFallbackOnFailure ==
    Processed =>
        /\ ~raised
        /\ failed # <<>> =>
               /\ bot_reply[1] \in {ErrorReply,
                                    _get_fallback_health_response(user_name),
                                    _get_fallback_general_response(user_name)}
               /\ \A e \in ExceptionTexts : ~Contains(e, bot_reply[1])

\* The number of rows of the messages table with the phone number.
RowsOf(rows, phone_number) ==
    Cardinality({i \in 1..Len(rows) : rows[i].phone_number = phone_number})

\* total_messages of the phone number's user row; 0 without a row.
TotalOf(table, phone_number) ==
    IF table[phone_number] = <<>> THEN 0
    ELSE table[phone_number][1].total_messages

\* Every row is incoming or outgoing, and every counter is the number of the
\* user's rows.
CountersMatchRows ==
    /\ \A i \in 1..Len(messages) :
           messages[i].message_type \in {"incoming", "outgoing"}
    /\ \A p \in Phones : TotalOf(users, p) = RowsOf(messages, p)

\* A step adds one row and increments that user's counter by one, or adds no
\* row and changes no counter.
OneRowOneCount ==
    \/ /\ messages' = messages
       /\ \A p \in Phones : TotalOf(users', p) = TotalOf(users, p)
    \/ /\ Len(messages') = Len(messages) + 1
       /\ SubSeq(messages', 1, Len(messages)) = messages
       /\ \A p \in Phones :
              TotalOf(users', p) =
                  TotalOf(users, p)
                      + (IF messages'[Len(messages')].phone_number = p
                         THEN 1 ELSE 0)

\* C27: under any sequence of store_message calls, with valid or invalid
\* message_type, every row of the messages table is 'incoming' or
\* 'outgoing' and each user's total_messages is the number of its rows: a
\* successful call adds one row and increments the counter by one, a
\* rejected call changes neither.
C27_CountersMatchRows == []CountersMatchRows /\ [][OneRowOneCount]_vars

\* A call was rejected after rows had been stored: one user has rows and a
\* counter, and the rejected call left a user with no row and counter 0.
C27_RejectedAfterStored ==
    /\ raised
    /\ \E p \in Phones : users[p] # <<>> /\ TotalOf(users, p) >= 1
    /\ \E q \in Phones :
           users[q] # <<>> /\ TotalOf(users, q) = 0 /\ RowsOf(messages, q) = 0

\* After delete_user_data(p) has returned True, p has no user row, no
\* message, no analysis and an empty export.
DeletedIsGone ==
    \A p \in Phones :
        deleted = <<p>> =>
            /\ get_user_info(p) = <<>>
            /\ RowsWhere(messages, p) = <<>>
            /\ RowsWhere(analyses, p) = <<>>
            /\ export_user_data(p) = <<>>

\* A delete_user_data(p) that returns True leaves the data of every other
\* number as they were.
OthersKept ==
    \A p \in Phones :
        deleted' = <<p>> =>
            \A q \in Phones \ {p} :
                /\ users'[q] = users[q]
                /\ RowsWhere(messages', q) = RowsWhere(messages, q)
                /\ RowsWhere(analyses', q) = RowsWhere(analyses, q)
                /\ export_user_data(q)' = export_user_data(q)

\* The first message stored for p after its data were deleted makes a new
\* user row, without name, whose total_messages is 1.
FreshAfterDelete ==
    \A p \in Phones :
        (/\ deleted = <<p>>
         /\ Len(messages') = Len(messages) + 1
         /\ messages'[Len(messages')].phone_number = p) =>
            users'[p] = <<[name |-> <<>>, total_messages |-> 1]>>

\* C28: after delete_user_data(p) returns True, get_user_info(p) is None,
\* the message history and the analyses of p are empty and
\* export_user_data(p) is {}, while the user row, messages and analyses of
\* every other number are unchanged; a later store_message(p, ..) creates a
\* fresh user whose total_messages restarts at 1.
C28_DeleteUserData ==
    []DeletedIsGone /\ [][OthersKept /\ FreshAfterDelete]_vars

\* The data of one number were deleted while another number, registered
\* with a name, keeps its message and its analysis.
C28_OtherUserKept ==
    \E p \in Phones, q \in Phones :
        /\ p # q
        /\ deleted = <<p>>
        /\ users[q] = <<[name |-> <<"Asha">>, total_messages |-> 1]>>
        /\ Len(RowsWhere(messages, q)) = 1
        /\ Len(RowsWhere(analyses, q)) = 1
        /\ export_user_data(q) # <<>>

\* In any interval shorter than time_window at most max_calls calls of an
\* identifier returned True.
WindowRespected ==
    \A identifier \in Identifiers :
        \A i, j \in 1..Len(granted[identifier]) :
            (i <= j /\ granted[identifier][j] - granted[identifier][i]
                           < time_window) =>
                j - i + 1 <= max_calls

\* After a call for an identifier at time now, its recorded calls are the
\* calls that returned True and are younger than time_window at now: a
\* denied call is not among them and older calls are evicted.
RecordedAreGranted ==
    last_call # <<>> =>
        /\ rate_calls[last_call[1].identifier] =
               SelectSeq(granted[last_call[1].identifier],
                         LAMBDA call_time :
                             last_call[1].now - call_time < time_window)
        /\ Len(rate_calls[last_call[1].identifier]) <= max_calls
        /\ ~last_call[1].result =>
               Len(rate_calls[last_call[1].identifier]) = max_calls

\* A call for one identifier leaves the recorded calls of every other one.
OthersUntouched ==
    last_call' # <<>> =>
        \A other \in Identifiers \ {last_call'[1].identifier} :
            /\ rate_calls'[other] = rate_calls[other]
            /\ granted'[other] = granted[other]

\* C29: RateLimiter is a sliding window per identifier: with a clock that
\* does not go back, the calls of one identifier that returned True within
\* any interval shorter than time_window never exceed max_calls; a denied
\* call is not recorded, calls older than time_window are evicted, and a
\* call for one identifier never changes the recorded calls of another.
C29_SlidingWindow ==
    [](WindowRespected /\ RecordedAreGranted) /\ [][OthersUntouched]_vars

\* A call was denied at the limit after older calls of the identifier had
\* been evicted, while another identifier has calls recorded.
C29_DeniedAfterEviction ==
    /\ last_call # <<>>
    /\ ~last_call[1].result
    /\ Len(granted[last_call[1].identifier]) > max_calls
    /\ Len(rate_calls[last_call[1].identifier]) = max_calls
    /\ \E other \in Identifiers \ {last_call[1].identifier} :
           rate_calls[other] # <<>>

\* chunk_message has returned.
Chunked == chunk_input # <<>>

\* C30: chunk_message(message, max_length) returns the message as a single
\* chunk when len(message) <= max_length, and otherwise a list of non-empty
\* chunks each of length at most max_length, for every message.
C30_ChunksFit ==
    Chunked =>
        IF Len(chunk_input[1].message) <= chunk_input[1].max_length
        THEN chunks = <<chunk_input[1].message>>
        ELSE \A i \in 1..Len(chunks) :
                 /\ chunks[i] # ""
                 /\ Len(chunks[i]) <= chunk_input[1].max_length

====
